---------------------------- MODULE Spec2Model ----------------------------
(***************************************************************************)
(* openskills: the upload (publish) pipeline, the install command and the  *)
(* skill locator, as a state machine.                                      *)
(*                                                                         *)
(* Program strings are sequences of characters; a character is a TLA+      *)
(* string of length one ("NUL" names the character of code 0 and "BQ"    *)
(* the backquote).  The                                                    *)
(* external version-control process (git) and the filesystem are the       *)
(* environment: every command may fail, and the model records each command *)
(* line the program composes in lastCmd.                                   *)
(***************************************************************************)
EXTENDS Naturals, Integers, Sequences, FiniteSets, TLC

\* ------------------------------------------------------------------------
\* Strings
\* ------------------------------------------------------------------------

Letters == {"A", "Z", "a", "b", "c", "d", "e", "g", "h", "i", "m", "n", "o", "p", "r", "s", "t", "u", "v", "x", "z"}

Digits == {"0", "1", "9"}

\* The character class [a-zA-Z0-9._-] of the name validators.
NameChars == Letters \cup Digits \cup {".", "_", "-"}

\* The character class [a-zA-Z0-9._/-] of the branch validator.
BranchChars == NameChars \cup {"/"}

\* s.startsWith(p)
StartsWith(s, p) == Len(s) >= Len(p) /\ SubSeq(s, 1, Len(p)) = p

\* s.endsWith(p)
EndsWith(s, p) == Len(s) >= Len(p) /\ SubSeq(s, Len(s) - Len(p) + 1, Len(s)) = p

\* s.includes(c) for a single character c
IncludesChar(s, c) == \E k \in 1..Len(s) : s[k] = c

\* s.includes(p) for a string p
Includes(s, p) == \E k \in 1..(Len(s) + 1 - Len(p)) : SubSeq(s, k, k + Len(p) - 1) = p

\* s.replace(/c/g, r): every occurrence of the character c replaced by the string r
RECURSIVE ReplaceAll(_, _, _)
ReplaceAll(s, c, r) ==
    IF s = <<>> THEN <<>>
    ELSE (IF Head(s) = c THEN r ELSE <<Head(s)>>) \o ReplaceAll(Tail(s), c, r)

\* path.join(a, b) for two non-empty relative or absolute segments
join(a, b) == a \o <<"/">> \o b

\* The string literals of the program.
S_main == <<"m", "a", "i", "n">>

S_master == <<"m", "a", "s", "t", "e", "r">>

S_skills == <<"s", "k", "i", "l", "l", "s">>

S_https == <<"h", "t", "t", "p", "s", ":", "/", "/">>

S_http == <<"h", "t", "t", "p", ":", "/", "/">>

S_gitproto == <<"g", "i", "t", ":", "/", "/">>

S_gitat == <<"g", "i", "t", "@">>

S_dotgit == <<".", "g", "i", "t">>

S_github == S_https \o <<"g", "i", "t", "h", "u", "b", ".", "c", "o", "m", "/">>

\* ------------------------------------------------------------------------
\* Identifier validators and escaping (upload.ts)
\* ------------------------------------------------------------------------

MaxNameLen == 255

MaxUrlLen == 2000

isValidBranchName(branch) ==
    /\ \A k \in 1..Len(branch) : branch[k] \in BranchChars
    /\ Len(branch) > 0
    /\ Len(branch) <= MaxNameLen

isValidSkillName(skillName) ==
    /\ \A k \in 1..Len(skillName) : skillName[k] \in NameChars
    /\ Len(skillName) > 0
    /\ Len(skillName) <= MaxNameLen

\* The remote-name validator without its test for two dots.
isValidRepoNamePlain(repoName) == isValidSkillName(repoName)

isValidRepoName(repoName) ==
    IF \/ Includes(repoName, <<".", ".">>)
       \/ IncludesChar(repoName, "/")
       \/ IncludesChar(repoName, "\\")
    THEN FALSE
    ELSE /\ \A k \in 1..Len(repoName) : repoName[k] \in NameChars
         /\ Len(repoName) > 0
         /\ Len(repoName) <= MaxNameLen

validProtocols == {S_http, S_https, S_gitproto, S_gitat}

dangerousChars == {"BQ", "$", ";", "&", "|", "<", ">", "\n", "\r"}

isValidGitUrl(url) ==
    IF ~ \E protocol \in validProtocols : StartsWith(url, protocol)
    THEN FALSE
    ELSE IF \E char \in dangerousChars : IncludesChar(url, char)
    THEN FALSE
    ELSE Len(url) > 0 /\ Len(url) <= MaxUrlLen

\* The replacements of escapeGitPath with the double quotes taken first.
escapeGitPathQuotesFirst(path) ==
    ReplaceAll(
      ReplaceAll(
        ReplaceAll(
          ReplaceAll(
            ReplaceAll(
              ReplaceAll(path, "\"", <<"\\", "\"">>),
              "\\", <<"\\", "\\">>),
            "\n", <<>>),
          "\r", <<>>),
        "\t", <<" ">>),
      "NUL", <<>>)

escapeGitPath(path) ==
    ReplaceAll(
      ReplaceAll(
        ReplaceAll(
          ReplaceAll(
            ReplaceAll(
              ReplaceAll(path, "\\", <<"\\", "\\">>),
              "\"", <<"\\", "\"">>),
            "\n", <<>>),
          "\r", <<>>),
        "\t", <<" ">>),
      "NUL", <<>>)

escapeCommitMessage(message) ==
    ReplaceAll(
      ReplaceAll(
        ReplaceAll(
          ReplaceAll(
            ReplaceAll(
              ReplaceAll(
                ReplaceAll(message, "\\", <<"\\", "\\">>),
                "\"", <<"\\", "\"">>),
              "$", <<"\\", "$">>),
            "BQ", <<"\\", "BQ">>),
          "\n", <<" ">>),
        "\r", <<>>),
      "NUL", <<>>)

sanitizeBranchName(branch) == IF isValidBranchName(branch) THEN branch ELSE S_main

DEFAULT_BRANCHES == <<S_main, S_master>>

\* The shell's reading of the inside of a double-quoted argument: a backslash
\* takes the next character with it, and a double quote that no backslash
\* takes closes the argument.
RECURSIVE ClosesQuote(_)
ClosesQuote(s) ==
    IF s = <<>> THEN FALSE
    ELSE IF Head(s) = "\"" THEN TRUE
    ELSE IF Head(s) = "\\" /\ Len(s) >= 2 THEN ClosesQuote(Tail(Tail(s)))
    ELSE ClosesQuote(Tail(s))

\* ------------------------------------------------------------------------
\* Bounds and input sets
\* ------------------------------------------------------------------------

\* The longest batch of skills handed to uploadToRepository.
MaxSkills == 2

\* The most failures of external commands and file operations that one run
\* survives (a failure that ends the run is not counted).
MaxFaults == 1

SkillA == <<"a">>

SkillB == <<"b">>

\* A directory name that findSkill resolves and isValidSkillName rejects.
SkillBad == <<"a", " ">>

SkillNames == {SkillA, SkillB, SkillBad}

\* The names a target directory skills/<name> of the mirror can have.
TargetNames == {n \in SkillNames : isValidSkillName(n)}

RepoNames == {<<"r">>, <<".", ".">>}

UrlPlain == S_https \o <<"h">>

UrlQuote == S_https \o <<"h", "\"", "x">>

UrlDollar == S_https \o <<"$">>

RepoUrls == {UrlPlain, UrlQuote, UrlDollar}

\* options.message: the empty string is falsy, so it selects the default message.
Messages == {<<>>, <<"u", "\"">>}

\* What `git rev-parse --abbrev-ref HEAD` can print for the mirror.
BranchRaws == {<<"d">>, <<"d", "#">>}

\* All sequences over S without repetition, of length 1..n.
RECURSIVE Batches(_, _)
Batches(S, n) ==
    IF n = 0 THEN {}
    ELSE {<<x>> : x \in S} \cup
         {Append(b, x) : <<b, x>> \in
            {<<b2, x2>> \in Batches(S, n - 1) \X S :
                \A k \in 1..Len(b2) : b2[k] # x2}}

Position(b, x) ==
    CHOOSE k \in 0..Len(b) : (k # 0 /\ b[k] = x) \/ (k = 0 /\ \A m \in 1..Len(b) : b[m] # x)

\* The batches of an upload.  SkillA and SkillB are interchangeable, so a batch
\* holds SkillB only after SkillA.
UploadBatches ==
    {b \in Batches(SkillNames, MaxSkills) :
        Position(b, SkillB) # 0 =>
            (Position(b, SkillA) # 0 /\ Position(b, SkillA) < Position(b, SkillB))}

\* The source arguments of install: a local path, git URLs, GitHub shorthands
\* with and without a path, and a word that is none of these.
Sources ==
    {<<".", "/", "s">>, UrlPlain, UrlDollar, <<"o", "/", "r">>, <<"o", "/", "r", "/", "s">>,
     <<"o">>, <<"o", ";", "x", "/", "r">>}

\* The most calls of findAllSkills in one run.
MaxCalls == 2

\* homedir()/.openskills/repos
ReposDir == <<"/", "h", "/", "r">>

\* ------------------------------------------------------------------------
\* The mirror: working tree, index and HEAD, per target skills/<name>
\* ------------------------------------------------------------------------

GIT_SUBMODULE_MODE == 160000

MAX_RETRY_ATTEMPTS == 10

\* Index and HEAD entries of a path: nothing, plain files with the content the
\* mirror had before ("old"), plain files equal to the skill's source ("new"),
\* or a gitlink ("sub").
EntryKinds == {"none", "old", "new", "sub"}

\* The mode `git ls-files --stage` prints for an entry.
StageMode(kind) == IF kind = "sub" THEN 160000 ELSE 100644

Absent == [exists |-> FALSE, git |-> FALSE, md |-> FALSE, fresh |-> FALSE]

\* The states skills/<name> can be in when a publish starts (working tree,
\* index entry, HEAD entry, submodule bookkeeping): absent; tracked plain files,
\* older than or equal to the skill's source; a nested repository that the
\* parent does not track, or whose files the parent tracks as plain files; a
\* registered submodule, checked out or left empty; and tracked plain files
\* equal to the source in a commit of the mirror that is not on the remote,
\* as a publish leaves them that committed and then failed at the push.
TargetKinds ==
    {"absent", "plainOld", "plainSame", "plainUnpushed", "nestedUnreg", "nestedTracked",
     "regSub", "regSubEmpty"}

\* The states a fresh clone can hold: a nested .git is never part of a clone,
\* and a registered submodule is checked out as an empty directory.
CloneKinds == {"absent", "plainOld", "plainSame", "regSubEmpty"}

Registered(k) == k \in {"regSub", "regSubEmpty"}

KindWt(k) ==
    CASE k = "absent" -> Absent
      [] k = "plainOld" -> [exists |-> TRUE, git |-> FALSE, md |-> TRUE, fresh |-> FALSE]
      [] k = "plainSame" -> [exists |-> TRUE, git |-> FALSE, md |-> TRUE, fresh |-> TRUE]
      [] k = "plainUnpushed" -> [exists |-> TRUE, git |-> FALSE, md |-> TRUE, fresh |-> TRUE]
      [] k = "nestedUnreg" -> [exists |-> TRUE, git |-> TRUE, md |-> TRUE, fresh |-> FALSE]
      [] k = "nestedTracked" -> [exists |-> TRUE, git |-> TRUE, md |-> TRUE, fresh |-> FALSE]
      [] k = "regSub" -> [exists |-> TRUE, git |-> TRUE, md |-> TRUE, fresh |-> FALSE]
      [] k = "regSubEmpty" -> [exists |-> TRUE, git |-> FALSE, md |-> FALSE, fresh |-> FALSE]

KindEntry(k) ==
    CASE k = "absent" -> "none"
      [] k = "plainOld" -> "old"
      [] k = "plainSame" -> "new"
      [] k = "plainUnpushed" -> "new"
      [] k = "nestedUnreg" -> "none"
      [] k = "nestedTracked" -> "old"
      [] k = "regSub" -> "sub"
      [] k = "regSubEmpty" -> "sub"

VARIABLES
    pc,            \* position in the running command
    exitCode,      \* -1 while running, else the status the process ended with
    outcome,       \* what the command reported when it ended
    repoName,      \* selectedRepo.name
    repoUrl,       \* selectedRepo.url
    skills,        \* the batch: the names of skillsToUpload, in order
    optYes,        \* options.yes
    prior,         \* what skills/<name> holds in the remote or in the mirror at the start
    mirror,        \* existsSync(localRepoDir)
    wt,            \* working tree of the mirror, per target name
    idx,           \* index of the mirror, per target name
    head,          \* HEAD commit of the mirror, per target name
    gmWt,          \* sections of the .gitmodules file in the working tree
    gmIdx,         \* sections of .gitmodules in the index
    gmHead,        \* sections of .gitmodules in HEAD
    gitCfg,        \* [submodule "skills/<name>"] sections of .git/config
    gitMods,       \* directories .git/modules/skills/<name>
    i,             \* index of the per-skill loop
    j,             \* index of the loop at hand (candidates, post-loop passes)
    isSubmodule,
    isRegisteredSubmodule,
    currentBranch,
    lastCmd,       \* the external command lines the last step composed
    done,          \* history: the operations carried out, each with its skill
    commits,       \* history: the commits this run created, in order
    pushed,        \* history: the branch a push succeeded on, or <<>>
    attempts,      \* history: the pushes of pushToRemote, in order
    commitResult,  \* history: what the batch commit printed, or <<>>
    declined,      \* history: the names whose overwrite the user declined
    copied,        \* history: the names whose copy passed the post-copy checks
    faults,        \* history: the operations that failed and that the run survived
    source,        \* install: the source argument
    skillSubpath,  \* install: the path of the skill inside the repository
    tempDir,       \* install: the temporary clone directory exists
    roots,         \* locator: what each search root holds under each name
    resolved,      \* locator: the results of the calls of findAllSkills so far
    readdirOrder,  \* locator: the order in which the last call listed the directories
    srcTree,       \* the tree of skill.baseDir that the last copy read
    tgtTree,       \* the tree at skills/<name> of the skill copied last
    updates,       \* the fetch and the pulls that brought the mirror up to date
    purge,         \* removeGitDirectory run by itself: its locals, the path and the output
    call,          \* a validator, an escaping function or a path check run by itself
    inst,          \* install: the source tree, the destination and the bundles in hand
    config,        \* ~/.openskills/repositories.json and the result of the last call
    lookup         \* uploadSkill: the names selected from the listing and their batch

vars == <<pc, exitCode, outcome, repoName, repoUrl, skills, optYes, prior, mirror, wt, idx,
          head, gmWt, gmIdx, gmHead, gitCfg, gitMods, i, j, isSubmodule,
          isRegisteredSubmodule, currentBranch, lastCmd, done, commits, pushed, attempts,
          commitResult,
          declined,
          copied, faults, source, skillSubpath, tempDir, roots, resolved, readdirOrder,
          srcTree, tgtTree, updates, purge, call, inst, config, lookup>>

installVars == <<source, skillSubpath, tempDir>>

locatorVars == <<roots, resolved, readdirOrder>>

\* The state of the functions that are run by themselves.
otherVars == <<purge, call, inst, config, lookup>>

\* What a phase keeps of its steps until the per-skill loop goes on.
stepVars == <<updates, srcTree, tgtTree>>

inputVars == <<repoName, repoUrl, skills, optYes, prior>>

treeVars == <<wt, idx, head, gmWt, gmIdx, gmHead, gitCfg, gitMods>>

localVars == <<i, j, isSubmodule, isRegisteredSubmodule, currentBranch>>

histVars == <<commits, pushed, attempts, commitResult, declined, copied>>

\* The state of the three commands, their position apart.
commandVars == <<exitCode, outcome, lastCmd, done, installVars, locatorVars, stepVars,
                 inputVars, mirror, treeVars, localVars, histVars, faults>>

\* An interpolated value of a command line: what it is, the user or
\* configuration value it carries, the text placed in the command line, and
\* whether the text sits between double quotes.
Arg(kind, raw, text, quoted) ==
    [kind |-> kind, raw |-> raw, text |-> text, quoted |-> quoted]

Cmd(op, args) == [op |-> op, args |-> args]

\* The operations of a step that concern no single skill carry this name.
NoName == <<>>

\* A step that composes the command lines cs, all for the skill name, and
\* carries out the file operations fileOps on its directory.
Record(cs, name, fileOps) ==
    /\ lastCmd' = cs
    /\ done' = done \cup {<<cs[k].op, name>> : k \in 1..Len(cs)}
                    \cup {<<op, name>> : op \in fileOps}

\* A step that runs no command and touches no file.
NoRecord ==
    /\ lastCmd' = <<>>
    /\ done' = done

\* repoName.split(/[/\\]/).pop()
RECURSIVE LastSegment(_)
LastSegment(s) ==
    IF ~ \E k \in 1..Len(s) : s[k] \in {"/", "\\"} THEN s
    ELSE LastSegment(Tail(s))

safeRepoName == IF LastSegment(repoName) = <<>> THEN repoName ELSE LastSegment(repoName)

localRepoDir == join(ReposDir, safeRepoName)

\* join('skills', skill.name)
skillPath(name) == join(S_skills, name)

\* The content a mirror can hold: a kind for every target name.
MirrorContents == [TargetNames -> TargetKinds]

\* process.exit(code)
Exit(code, what) ==
    /\ pc' = "exited"
    /\ exitCode' = code
    /\ outcome' = what

\* return from uploadToRepository
Return(what) ==
    /\ pc' = "returned"
    /\ exitCode' = 0
    /\ outcome' = what

Running == /\ exitCode' = exitCode
           /\ outcome' = outcome

\* ------------------------------------------------------------------------
\* git and the filesystem, as the program drives them
\* ------------------------------------------------------------------------

\* What `git add` makes of the index entry of a path, from the working tree:
\* a missing directory stages a deletion, a directory holding .git is added
\* as a gitlink, and a path still registered as a gitlink stays one (the
\* plain files under it are not added until the gitlink is removed).
Stage(w, k) ==
    IF ~ w.exists THEN "none"
    ELSE IF w.git THEN "sub"
    ELSE IF k = "sub" THEN "sub"
    ELSE IF w.fresh THEN "new" ELSE "old"

\* Changes staged in the index against HEAD.
Staged == idx # head \/ gmIdx # gmHead

\* `git status --porcelain` prints something: staged or unstaged changes.
Dirty ==
    \/ Staged
    \/ \E n \in TargetNames : Stage(wt[n], idx[n]) # idx[n]
    \/ gmWt # gmIdx

\* removeGitDirectory without the existence check after the loop: it reports
\* the removal whatever became of the path.
removeGitDirectoryUnchecked(present, goneAt) ==
    [removed |-> TRUE, present |-> present /\ goneAt > MAX_RETRY_ATTEMPTS + 1]

\* The outcomes of removeGitDirectory on a path: whether .git is present
\* before, and the attempt after whose wait the removal becomes visible
\* (MAX_RETRY_ATTEMPTS + 1: only after the last re-check of the loop;
\* MAX_RETRY_ATTEMPTS + 2: not at all).
removeGitDirectory(present, goneAt) ==
    IF ~ present THEN [removed |-> TRUE, present |-> FALSE]
    ELSE IF goneAt <= MAX_RETRY_ATTEMPTS THEN [removed |-> TRUE, present |-> FALSE]
    ELSE IF goneAt = MAX_RETRY_ATTEMPTS + 1 THEN [removed |-> FALSE, present |-> FALSE]
    ELSE [removed |-> FALSE, present |-> TRUE]

GoneAts(present) == IF present THEN 1..(MAX_RETRY_ATTEMPTS + 2) ELSE {1}

\* The outcomes of an operation whose failure the run survives.
Oks == IF Cardinality(faults) < MaxFaults THEN BOOLEAN ELSE {TRUE}

\* The operation op on the skill name went through, or failed and is survived.
Spend(ok, op, name) == faults' = IF ok THEN faults ELSE faults \cup {<<op, name>>}

\* ------------------------------------------------------------------------
\* uploadToRepository
\* ------------------------------------------------------------------------

\* UploadValidate with the check of the URL left out.
UploadValidateNameOnly ==
    /\ pc = "uploadToRepository"
    /\ IF ~ isValidRepoName(repoName) THEN Exit(1, "invalid repository name")
       ELSE /\ pc' = IF mirror THEN "fetch" ELSE "clone"
            /\ Running
    /\ NoRecord
    /\ UNCHANGED <<installVars, locatorVars, otherVars, stepVars, inputVars, mirror, treeVars, localVars,
                   histVars, faults>>

\* Lines 470-489: validation of the remote, then the mirror is looked up.
UploadValidate ==
    /\ pc = "uploadToRepository"
    /\ IF ~ isValidRepoName(repoName) THEN Exit(1, "invalid repository name")
       ELSE IF ~ isValidGitUrl(repoUrl) THEN Exit(1, "invalid url")
       ELSE /\ pc' = IF mirror THEN "fetch" ELSE "clone"
            /\ Running
    /\ NoRecord
    /\ UNCHANGED <<installVars, locatorVars, otherVars, stepVars, inputVars,
                   mirror, treeVars, localVars, histVars, faults>>

\* Clone with the failure of the clone logged and ignored.
CloneOrGoOn ==
    /\ pc = "clone"
    /\ Record(<<Cmd("clone", <<Arg("url", repoUrl, repoUrl, TRUE),
                                Arg("repo", repoName, localRepoDir, TRUE)>>)>>,
              NoName, {})
    /\ pc' = "loop"
    /\ Running
    /\ UNCHANGED <<installVars, locatorVars, otherVars, stepVars, inputVars, mirror, treeVars, localVars,
                   histVars, faults>>

\* Lines 489-504: git clone "<repoUrl>" "<localRepoDir>".  A clone brings the
\* content of the remote into the mirror, index and HEAD alike.
Clone ==
    /\ pc = "clone"
    /\ Record(<<Cmd("clone", <<Arg("url", repoUrl, repoUrl, TRUE),
                                Arg("repo", repoName, localRepoDir, TRUE)>>)>>,
              NoName, {})
    /\ \E ok \in BOOLEAN :
         IF ok
         THEN /\ mirror' = TRUE
              /\ wt' = [n \in TargetNames |-> KindWt(prior[n])]
              /\ idx' = [n \in TargetNames |-> KindEntry(prior[n])]
              /\ head' = [n \in TargetNames |-> KindEntry(prior[n])]
              /\ gmWt' = {n \in TargetNames : Registered(prior[n])}
              /\ gmIdx' = {n \in TargetNames : Registered(prior[n])}
              /\ gmHead' = {n \in TargetNames : Registered(prior[n])}
              /\ UNCHANGED <<gitCfg, gitMods>>
              /\ pc' = "loop"
              /\ Running
         ELSE /\ Exit(1, "clone failed")
              /\ UNCHANGED <<mirror, treeVars>>
    /\ UNCHANGED <<installVars, locatorVars, otherVars, stepVars, inputVars, localVars, histVars, faults>>

\* Fetch with a failure of the fetch ending the process.
FetchOrAbort ==
    /\ pc = "fetch"
    /\ Record(<<Cmd("fetch", <<>>)>>, NoName, {})
    /\ \E ok \in BOOLEAN :
         /\ updates' = Append(updates, [op |-> "fetch", branch |-> <<>>, ok |-> ok])
         /\ IF ok
            THEN /\ pc' = "pullBranch"
                 /\ Running
            ELSE Exit(1, "fetch failed")
    /\ UNCHANGED <<installVars, locatorVars, otherVars, srcTree, tgtTree, inputVars,
                   mirror, treeVars, localVars, histVars, faults>>

\* Lines 506-509 and 532-535: git fetch origin; a failure leaves the try block.
Fetch ==
    /\ pc = "fetch"
    /\ Record(<<Cmd("fetch", <<>>)>>, NoName, {})
    /\ \E ok \in BOOLEAN :
         /\ pc' = IF ok THEN "pullBranch" ELSE "loop"
         /\ updates' = Append(updates, [op |-> "fetch", branch |-> <<>>, ok |-> ok])
    /\ Running
    /\ UNCHANGED <<installVars, locatorVars, otherVars, srcTree, tgtTree, inputVars,
                   mirror, treeVars, localVars, histVars, faults>>

\* getCurrentBranch (304-314): git rev-parse --abbrev-ref HEAD, sanitized;
\* 'main' when the command fails.
getCurrentBranch(ok, raw) == IF ok THEN sanitizeBranchName(raw) ELSE S_main

\* Line 510.
PullBranch ==
    /\ pc = "pullBranch"
    /\ Record(<<Cmd("rev-parse", <<>>)>>, NoName, {})
    /\ \E ok \in BOOLEAN, raw \in BranchRaws : currentBranch' = getCurrentBranch(ok, raw)
    /\ j' = 1
    /\ pc' = "pull"
    /\ Running
    /\ UNCHANGED <<installVars, locatorVars, otherVars, stepVars, inputVars,
                   mirror, treeVars, i, isSubmodule, isRegisteredSubmodule,
                   histVars, faults>>

\* Candidates with the default branches ahead of the current one.
CandidatesDefaultsFirst == DEFAULT_BRANCHES \o <<currentBranch>>

\* The branches tried in turn by the pull and by the push (514, 963).
Candidates == <<currentBranch>> \o DEFAULT_BRANCHES

\* Pull with the `break` after a pull that succeeded left out.
PullEveryBranch ==
    /\ pc = "pull"
    /\ LET branch == Candidates[j]
           safeBranch == sanitizeBranchName(branch)
       IN /\ Record(<<Cmd("pull", <<Arg("branch", branch, safeBranch, FALSE)>>)>>, NoName, {})
          /\ \E ok \in BOOLEAN :
               /\ updates' = Append(updates, [op |-> "pull", branch |-> safeBranch, ok |-> ok])
               /\ IF j = Len(Candidates)
                  THEN /\ pc' = "loop"
                       /\ j' = 1
                       /\ currentBranch' = S_main
                  ELSE /\ pc' = "pull"
                       /\ j' = j + 1
                       /\ UNCHANGED currentBranch
    /\ Running
    /\ UNCHANGED <<installVars, locatorVars, otherVars, srcTree, tgtTree, inputVars,
                   mirror, treeVars, i, isSubmodule, isRegisteredSubmodule,
                   histVars, faults>>

\* Lines 513-531: git pull origin <branch> for the current branch, main, master.
Pull ==
    /\ pc = "pull"
    /\ LET branch == Candidates[j]
           safeBranch == sanitizeBranchName(branch)
       IN /\ Record(<<Cmd("pull", <<Arg("branch", branch, safeBranch, FALSE)>>)>>, NoName, {})
          /\ \E ok \in BOOLEAN :
               /\ updates' = Append(updates, [op |-> "pull", branch |-> safeBranch, ok |-> ok])
               /\ IF ok \/ j = Len(Candidates)
                  THEN /\ pc' = "loop"
                       /\ j' = 1
                       /\ currentBranch' = S_main
                  ELSE /\ pc' = "pull"
                       /\ j' = j + 1
                       /\ UNCHANGED currentBranch
    /\ Running
    /\ UNCHANGED <<installVars, locatorVars, otherVars, srcTree, tgtTree, inputVars,
                   mirror, treeVars, i, isSubmodule, isRegisteredSubmodule,
                   histVars, faults>>

\* Lines 543-553 and 575-582: the head of the per-skill loop.
LoopHead ==
    /\ pc = "loop"
    /\ IF i > Len(skills)
       THEN /\ pc' = "ensureAll"
            /\ Running
       ELSE IF ~ isValidSkillName(skills[i]) THEN Exit(1, "invalid skill name")
       ELSE /\ pc' = IF wt[skills[i]].exists
                     THEN (IF optYes THEN "detect" ELSE "confirm")
                     ELSE "copy"
            /\ Running
    /\ isSubmodule' = FALSE
    /\ isRegisteredSubmodule' = FALSE
    /\ j' = 1
    /\ srcTree' = {}
    /\ tgtTree' = {}
    /\ updates' = <<>>
    /\ NoRecord
    /\ UNCHANGED <<installVars, locatorVars, otherVars, inputVars,
                   mirror, treeVars, i, currentBranch, histVars, faults>>

\* Confirm with the `continue` after a declined overwrite left out.
ConfirmNoContinue ==
    /\ pc = "confirm"
    /\ \E answer \in {"yes", "no", "interrupt"} :
         CASE answer = "yes" ->
                /\ pc' = "detect"
                /\ Running
                /\ UNCHANGED <<i, declined>>
           [] answer = "no" ->
                /\ pc' = "detect"
                /\ declined' = declined \cup {skills[i]}
                /\ Running
                /\ UNCHANGED i
           [] answer = "interrupt" ->
                /\ Exit(0, "cancelled")
                /\ UNCHANGED <<i, declined>>
    /\ NoRecord
    /\ UNCHANGED <<installVars, locatorVars, otherVars, stepVars, inputVars, mirror, treeVars, j, isSubmodule,
                   isRegisteredSubmodule, currentBranch, commits, pushed, attempts,
                   commitResult,
                   copied, faults>>

\* Confirm with the process.exit after an interrupted prompt left out.
ConfirmNoExit ==
    /\ pc = "confirm"
    /\ \E answer \in {"yes", "no", "interrupt"} :
         CASE answer = "yes" ->
                /\ pc' = "detect"
                /\ outcome' = outcome
                /\ UNCHANGED <<i, declined>>
           [] answer = "no" ->
                /\ pc' = "loop"
                /\ i' = i + 1
                /\ declined' = declined \cup {skills[i]}
                /\ outcome' = outcome
           [] answer = "interrupt" ->
                /\ pc' = "detect"
                /\ outcome' = "cancelled"
                /\ UNCHANGED <<i, declined>>
    /\ exitCode' = exitCode
    /\ NoRecord
    /\ UNCHANGED <<installVars, locatorVars, otherVars, stepVars, inputVars, mirror, treeVars, j, isSubmodule,
                   isRegisteredSubmodule, currentBranch, commits, pushed, attempts,
                   commitResult,
                   copied, faults>>

\* Lines 554-572: the overwrite confirmation.
Confirm ==
    /\ pc = "confirm"
    /\ \E answer \in {"yes", "no", "interrupt"} :
         CASE answer = "yes" ->
                /\ pc' = "detect"
                /\ Running
                /\ UNCHANGED <<i, declined>>
           [] answer = "no" ->
                /\ pc' = "loop"
                /\ i' = i + 1
                /\ declined' = declined \cup {skills[i]}
                /\ Running
           [] answer = "interrupt" ->
                /\ Exit(0, "cancelled")
                /\ UNCHANGED <<i, declined>>
    /\ NoRecord
    /\ UNCHANGED <<installVars, locatorVars, otherVars, stepVars, inputVars,
                   mirror, treeVars, j, isSubmodule, isRegisteredSubmodule,
                   currentBranch, commits, pushed, attempts,
                   commitResult,
                   copied, faults>>

\* Lines 583-607: nested .git, and git ls-files --stage "<skills/name>".
Detect ==
    /\ pc = "detect"
    /\ isSubmodule' = wt[skills[i]].git
    /\ Record(<<Cmd("ls-files",
                 <<Arg("skill", skills[i], escapeGitPath(skillPath(skills[i])), TRUE)>>)>>,
              skills[i], {})
    /\ \E ok \in Oks :
         /\ isRegisteredSubmodule' =
               (ok /\ idx[skills[i]] # "none"
                   /\ StageMode(idx[skills[i]]) = GIT_SUBMODULE_MODE)
         /\ Spend(ok, "ls-files", skills[i])
    /\ pc' = "rmIndex"
    /\ Running
    /\ UNCHANGED <<installVars, locatorVars, otherVars, stepVars, inputVars,
                   mirror, treeVars, i, j, currentBranch, histVars>>

\* What git rm --cached does to the entry of a path: without -r it removes a
\* single entry (a gitlink) and refuses a directory of files; with -r it
\* removes whatever is registered; nothing registered is an error.
GitRmCached(kind, recursive) ==
    IF kind = "none" THEN [ok |-> FALSE, kind |-> kind]
    ELSE IF ~ recursive /\ kind # "sub" THEN [ok |-> FALSE, kind |-> kind]
    ELSE [ok |-> TRUE, kind |-> "none"]

\* RemoveFromIndex with the removal left out.
RemoveFromIndexKept(kind, sub, ok) == kind

\* Lines 609-634: the index entry after git rm --cached --force "<path>" for a
\* submodule, git rm -r --cached "<path>" otherwise; ok tells whether the
\* command could run, and its failure is logged and ignored.
RemoveFromIndex(kind, sub, ok) ==
    IF ok /\ GitRmCached(kind, ~ sub).ok THEN GitRmCached(kind, ~ sub).kind ELSE kind

RmIndex ==
    /\ pc = "rmIndex"
    /\ LET name == skills[i]
           sub == isSubmodule \/ isRegisteredSubmodule
       IN /\ Record(<<Cmd(IF sub THEN "rm-cached-force" ELSE "rm-cached-r",
                       <<Arg("skill", name, escapeGitPath(skillPath(name)), TRUE)>>)>>,
                    name, {})
          /\ \E ok \in Oks :
               /\ idx' = [idx EXCEPT ![name] = RemoveFromIndex(idx[name], sub, ok)]
               /\ Spend(ok, "rm-cached", name)
    /\ pc' = "rmFs"
    /\ Running
    /\ UNCHANGED <<installVars, locatorVars, otherVars, stepVars, inputVars,
                   mirror, wt, head, gmWt, gmIdx, gmHead, gitCfg, gitMods,
                   localVars, histVars>>

\* Lines 636-642: rmSync of the target, then of a .git still seen in it.  The
\* directory goes, or its .git is still visible afterwards, or rmSync throws
\* and the catch of line 749 ends the process.
RmFs ==
    /\ pc = "rmFs"
    /\ \E result \in {"gone", "lingers", "throws"} :
         CASE result = "gone" ->
                /\ wt' = [wt EXCEPT ![skills[i]] = Absent]
                /\ pc' = IF isSubmodule \/ isRegisteredSubmodule THEN "cleanup" ELSE "copy"
                /\ Running
                /\ UNCHANGED faults
           [] result = "lingers" ->
                /\ wt[skills[i]].git
                /\ Cardinality(faults) < MaxFaults
                /\ faults' = faults \cup {<<"rmSync", skills[i]>>}
                /\ wt' = [wt EXCEPT ![skills[i]] =
                            [exists |-> TRUE, git |-> TRUE, md |-> FALSE, fresh |-> FALSE]]
                /\ pc' = IF isSubmodule \/ isRegisteredSubmodule THEN "cleanup" ELSE "copy"
                /\ Running
           [] result = "throws" ->
                /\ Exit(1, "copy failed")
                /\ UNCHANGED <<wt, faults>>
    /\ Record(<<>>, skills[i], {"rmSync"})
    /\ UNCHANGED <<installVars, locatorVars, otherVars, stepVars, inputVars,
                   mirror, idx, head, gmWt, gmIdx, gmHead, gitCfg, gitMods,
                   localVars, histVars>>

\* cleanupSubmodule (143-223).  failed names the steps whose command or
\* file operation throws: "gm" the git command on .gitmodules, "cfg" the
\* rewrite of .git/config, "mods" the removal of .git/modules/skills/<name>.
\* A throw of the add of .gitmodules leaves the function through its outer catch.
cleanupSubmodule(name, failed) ==
    LET hasFile == gmWt # {}
        rest == gmWt \ {name}
        addFails == hasFile /\ rest # {} /\ "gm" \in failed
        rmFails == hasFile /\ rest = {} /\ "gm" \in failed
    IN [gmWt |-> rest,
        gmIdx |-> IF ~ hasFile \/ addFails \/ rmFails THEN gmIdx
                  ELSE rest,
        gitCfg |-> IF addFails \/ "cfg" \in failed THEN gitCfg ELSE gitCfg \ {name},
        gitMods |-> IF addFails \/ "mods" \in failed THEN gitMods ELSE gitMods \ {name},
        cmd |-> IF ~ hasFile THEN <<>>
                ELSE IF rest # {} THEN <<Cmd("add-gitmodules", <<>>)>>
                ELSE <<Cmd("rm-gitmodules", <<>>)>>]

\* Lines 644-647.
Cleanup ==
    /\ pc = "cleanup"
    /\ \E failed \in SUBSET {"gm", "cfg", "mods"} :
         LET r == cleanupSubmodule(skills[i], failed)
         IN /\ Cardinality(faults) + Cardinality(failed) <= MaxFaults
            /\ faults' = faults \cup {<<step, skills[i]>> : step \in failed}
            /\ gmWt' = r.gmWt
            /\ gmIdx' = r.gmIdx
            /\ gitCfg' = r.gitCfg
            /\ gitMods' = r.gitMods
            /\ Record(r.cmd, skills[i], {"cleanup"})
    /\ pc' = "status1"
    /\ Running
    /\ UNCHANGED <<installVars, locatorVars, otherVars, stepVars, inputVars,
                   mirror, wt, idx, head, gmHead, localVars, histVars>>

\* Lines 652-661 and 668-673: git status --porcelain before the checkpoint.
Status1 ==
    /\ pc = "status1"
    /\ Record(<<Cmd("status", <<>>)>>, skills[i], {})
    /\ \E ok \in Oks :
         /\ pc' = IF ok /\ Dirty THEN "commit1" ELSE "copy"
         /\ Spend(ok, "status", skills[i])
    /\ Running
    /\ UNCHANGED <<installVars, locatorVars, otherVars, stepVars, inputVars,
                   mirror, treeVars, localVars, histVars>>

\* What git commit does: it records the index as the new HEAD (and fails
\* with "nothing to commit" when nothing is staged).
GitCommit(label) ==
    /\ head' = idx
    /\ gmHead' = gmIdx
    /\ commits' = Append(commits, label)

\* Commit1 with the commit left out.
Commit1Skipped ==
    /\ pc = "commit1"
    /\ pc' = "copy"
    /\ Running
    /\ NoRecord
    /\ UNCHANGED <<installVars, locatorVars, otherVars, stepVars, inputVars, mirror, treeVars, localVars,
                   histVars, faults>>

\* Lines 661-667: the checkpoint commit of the removal; a failure is ignored.
Commit1 ==
    /\ pc = "commit1"
    /\ Record(<<Cmd("commit-removal", <<>>)>>, skills[i], {})
    /\ \E ok \in Oks :
         /\ IF ok /\ Staged
            THEN GitCommit([kind |-> "removal", name |-> skills[i]])
            ELSE UNCHANGED <<head, gmHead, commits>>
         /\ Spend(ok, "commit-removal", skills[i])
    /\ pc' = "copy"
    /\ Running
    /\ UNCHANGED <<installVars, locatorVars, otherVars, stepVars, inputVars,
                   mirror, wt, idx, gmWt, gmIdx, gitCfg, gitMods, localVars,
                   pushed, attempts, commitResult, declined, copied>>

\* A directory is a set of entries.  An entry is a file with its content, a
\* directory with its entries, or a symbolic link with what statSync makes of
\* it (ltype): a file, a directory, "none" for a broken link, "error" for a
\* link that cannot be read.
File(name, data) ==
    [name |-> name, type |-> "file", ltype |-> "", data |-> data, kids |-> {}]

Dir(name, kids) ==
    [name |-> name, type |-> "dir", ltype |-> "", data |-> "", kids |-> kids]

Link(name, ltype, data, kids) ==
    [name |-> name, type |-> "link", ltype |-> ltype, data |-> data, kids |-> kids]

\* isGitRelatedFile with the two file names left out.
isGitDirectoryOnly(name) == name = ".git"

\* isGitRelatedFile (230-232)
isGitRelatedFile(name) == name \in {".git", ".gitignore", ".gitattributes"}

\* existsSync(join(dir, name))
HasEntry(dir, name) == \E e \in dir : e.name = name

\* copyFileSync(srcPath, destPath)
copyFileSync(dest, name, data) ==
    {e \in dest : e.name # name} \cup {File(name, data)}

\* What destPath holds once mkdirSync(destPath, { recursive: true }) has run.
mkdirSync(dest, name) ==
    IF \E e \in dest : e.name = name /\ e.type = "dir"
    THEN (CHOOSE e \in dest : e.name = name /\ e.type = "dir").kids
    ELSE {}

\* copyRecursive (681-728): the entries of src are copied into dest one by
\* one; an entry named .git, .gitignore or .gitattributes is skipped at every
\* level, a link is copied as the file or the directory it points to, and a
\* broken or unreadable link is skipped.
RECURSIVE copyRecursive(_, _)
copyRecursive(src, dest) ==
    IF src = {} THEN dest
    ELSE LET entry == CHOOSE e \in src : TRUE
             into(kids) == {e \in dest : e.name # entry.name}
                               \cup {Dir(entry.name,
                                         copyRecursive(kids, mkdirSync(dest, entry.name)))}
             after ==
                 IF isGitRelatedFile(entry.name) THEN dest
                 ELSE IF entry.type = "dir" THEN into(entry.kids)
                 ELSE IF entry.type = "file" THEN copyFileSync(dest, entry.name, entry.data)
                 ELSE IF entry.ltype = "file" THEN copyFileSync(dest, entry.name, entry.data)
                 ELSE IF entry.ltype = "dir" THEN into(entry.kids)
                 ELSE dest
         IN copyRecursive(src \ {entry}, after)

\* The trees skill.baseDir can hold: a lone SKILL.md; version-control entries
\* at the top and inside a directory; links to a file, to a directory that
\* holds version-control entries, to nothing, and links named as such entries;
\* a tree without SKILL.md.
SourceTrees ==
    {{File("SKILL.md", "m")},
     {File("SKILL.md", "m"), Dir(".git", {File("f", "c")}), File(".gitignore", "i"),
      Dir("d", {File(".gitattributes", "a"), File("f", "x"), Dir(".git", {}), Dir("e", {})})},
     {Link("SKILL.md", "file", "m", {}), Link("l", "file", "y", {}),
      Link("d", "dir", "", {Dir(".git", {}), File("f", "x"),
                            Link(".gitignore", "file", "i", {})}),
      Link("b", "none", "", {}), Link("u", "error", "", {}),
      Link(".gitattributes", "file", "a", {}), Link(".git", "dir", "", {File("f", "c")})},
     {File("f", "x"), Link("SKILL.md", "none", "", {})}}

\* What the target directory holds when the copy begins: nothing, or what the
\* removal left of it.
PriorTree(w) ==
    (IF w.git THEN {Dir(".git", {File("f", "c")})} ELSE {})
        \cup (IF w.md THEN {File("SKILL.md", "old")} ELSE {})

\* TargetOf for a source that has changed since it was published.
TargetOfChanged(tree) ==
    [exists |-> TRUE, git |-> HasEntry(tree, ".git"), md |-> HasEntry(tree, "SKILL.md"),
     fresh |-> FALSE]

\* The target as the checks and git see it, from the tree it holds.
TargetOf(tree) ==
    [exists |-> TRUE, git |-> HasEntry(tree, ".git"), md |-> HasEntry(tree, "SKILL.md"),
     fresh |-> TRUE]

\* Lines 676-730: mkdirSync and copyRecursive; a throw ends the process (749-754).
Copy ==
    /\ pc = "copy"
    /\ \E src \in SourceTrees, throws \in BOOLEAN :
         IF throws
         THEN /\ Exit(1, "copy failed")
              /\ UNCHANGED <<wt, stepVars>>
         ELSE LET tree == copyRecursive(src, PriorTree(wt[skills[i]]))
              IN /\ srcTree' = src
                 /\ tgtTree' = tree
                 /\ UNCHANGED updates
                 /\ wt' = [wt EXCEPT ![skills[i]] = TargetOf(tree)]
                 /\ pc' = "verify"
                 /\ Running
    /\ Record(<<>>, skills[i], {"copy"})
    /\ UNCHANGED <<installVars, locatorVars, otherVars, inputVars,
                   mirror, idx, head, gmWt, gmIdx, gmHead, gitCfg, gitMods,
                   localVars, histVars, faults>>

\* Lines 732-748: the post-copy checks, both fatal.
Verify ==
    /\ pc = "verify"
    /\ \E goneAt \in GoneAts(wt[skills[i]].git) :
         LET name == skills[i]
             r == removeGitDirectory(wt[name].git, goneAt)
         IN /\ wt' = [wt EXCEPT ![name].git = r.present]
            /\ tgtTree' = IF r.present THEN tgtTree ELSE {e \in tgtTree : e.name # ".git"}
            /\ Record(<<>>, name, IF wt[name].git THEN {"rm-git"} ELSE {})
            /\ IF ~ r.removed
               THEN /\ Exit(1, "git remains after copy")
                    /\ UNCHANGED <<i, copied>>
               ELSE IF ~ wt[name].md
               THEN /\ Exit(1, "SKILL.md not copied")
                    /\ UNCHANGED <<i, copied>>
               ELSE /\ pc' = "loop"
                    /\ i' = i + 1
                    /\ copied' = copied \cup {name}
                    /\ Running
    /\ UNCHANGED <<installVars, locatorVars, otherVars, inputVars, srcTree, updates,
                   mirror, idx, head, gmWt, gmIdx, gmHead, gitCfg, gitMods,
                   j, isSubmodule, isRegisteredSubmodule, currentBranch,
                   commits, pushed, attempts, commitResult, declined, faults>>

\* The skills the passes after the loop go over (765 and 778): the whole batch.
PostLoopSkills == skills

\* Lines 765-771: ensureGitDirectoryRemoved for each skill of the batch.
EnsureAll ==
    /\ pc = "ensureAll"
    /\ IF j > Len(PostLoopSkills)
       THEN /\ pc' = "add"
            /\ j' = 1
            /\ Running
            /\ NoRecord
            /\ UNCHANGED wt
       ELSE \E goneAt \in GoneAts(wt[PostLoopSkills[j]].git) :
              LET name == PostLoopSkills[j]
                  r == removeGitDirectory(wt[name].git, goneAt)
              IN /\ wt' = [wt EXCEPT ![name].git = r.present]
                 /\ Record(<<>>, name, IF wt[name].git THEN {"ensure-rm-git"} ELSE {})
                 /\ IF ~ r.removed
                    THEN /\ Exit(1, "git remains before staging")
                         /\ UNCHANGED j
                    ELSE /\ pc' = "ensureAll"
                         /\ j' = j + 1
                         /\ Running
    /\ UNCHANGED <<installVars, locatorVars, otherVars, stepVars, inputVars,
                   mirror, idx, head, gmWt, gmIdx, gmHead, gitCfg, gitMods,
                   i, isSubmodule, isRegisteredSubmodule, currentBranch, histVars, faults>>

\* Lines 778-798: per skill, ensureGitDirectoryRemoved again, then
\* git add -f "<path>", and git add -f "<path>/" when that fails.
Add ==
    /\ pc = "add"
    /\ IF j > Len(PostLoopSkills)
       THEN /\ pc' = "addAll"
            /\ Running
            /\ NoRecord
            /\ UNCHANGED <<wt, idx, j, faults>>
       ELSE \E goneAt \in GoneAts(wt[PostLoopSkills[j]].git), ok1 \in Oks, ok2 \in BOOLEAN :
              LET name == PostLoopSkills[j]
                  r == removeGitDirectory(wt[name].git, goneAt)
                  w == [wt[name] EXCEPT !.git = r.present]
                  rm == IF wt[name].git THEN {"add-rm-git"} ELSE {}
                  a1 == Cmd("add-f", <<Arg("skill", name, escapeGitPath(skillPath(name)), TRUE)>>)
                  a2 == Cmd("add-f", <<Arg("skill", name,
                                           escapeGitPath(skillPath(name)) \o <<"/">>, TRUE)>>)
              IN /\ wt' = [wt EXCEPT ![name] = w]
                 /\ IF ~ r.removed
                    THEN /\ Exit(1, "git remains before add")
                         /\ Record(<<>>, name, rm)
                         /\ UNCHANGED <<idx, j, faults>>
                    ELSE IF ok1 \/ ok2
                    THEN /\ Record(IF ok1 THEN <<a1>> ELSE <<a1, a2>>, name, rm)
                         /\ idx' = [idx EXCEPT ![name] = Stage(w, idx[name])]
                         /\ j' = j + 1
                         /\ pc' = "add"
                         /\ Running
                         /\ Spend(ok1, "add-f", name)
                    ELSE /\ Record(<<a1, a2>>, name, rm)
                         /\ Exit(1, "add failed")
                         /\ UNCHANGED <<idx, j, faults>>
    /\ UNCHANGED <<installVars, locatorVars, otherVars, stepVars, inputVars,
                   mirror, head, gmWt, gmIdx, gmHead, gitCfg, gitMods,
                   i, isSubmodule, isRegisteredSubmodule, currentBranch, histVars>>

\* Lines 800-810: git add -A.
AddAll ==
    /\ pc = "addAll"
    /\ Record(<<Cmd("add-A", <<>>)>>, NoName, {})
    /\ \E ok \in BOOLEAN :
         IF ok
         THEN /\ idx' = [n \in TargetNames |-> Stage(wt[n], idx[n])]
              /\ gmIdx' = gmWt
              /\ pc' = "status2"
              /\ Running
         ELSE /\ Exit(1, "add failed")
              /\ UNCHANGED <<idx, gmIdx>>
    /\ UNCHANGED <<installVars, locatorVars, otherVars, stepVars, inputVars,
                   mirror, wt, head, gmWt, gmHead, gitCfg, gitMods,
                   localVars, histVars, faults>>

\* Status2 with the return on an empty status left out.
Status2ThenCommit ==
    /\ pc = "status2"
    /\ \E ok \in BOOLEAN :
         IF ~ ok
         THEN /\ Record(<<Cmd("status", <<>>)>>, NoName, {})
              /\ Exit(1, "status failed")
         ELSE /\ Record(<<Cmd("status", <<>>)>>, NoName, {})
              /\ pc' = "commit"
              /\ Running
    /\ UNCHANGED <<installVars, locatorVars, otherVars, stepVars, inputVars,
                   mirror, treeVars, localVars, histVars, faults>>

\* Lines 812-853: git status --porcelain; nothing to commit ends the upload.
Status2 ==
    /\ pc = "status2"
    /\ \E ok \in BOOLEAN :
         IF ~ ok
         THEN /\ Record(<<Cmd("status", <<>>)>>, NoName, {})
              /\ Exit(1, "status failed")
         ELSE IF ~ Dirty
         THEN /\ Record(<<Cmd("status", <<>>), Cmd("ls-files-skills", <<>>)>>, NoName, {})
              /\ Return("no changes")
         ELSE /\ Record(<<Cmd("status", <<>>)>>, NoName, {})
              /\ pc' = "commit"
              /\ Running
    /\ UNCHANGED <<installVars, locatorVars, otherVars, stepVars, inputVars,
                   mirror, treeVars, localVars, histVars, faults>>

S_uploadSkill == <<"U", "p", "l", "o", "a", "d", " ", "s", "k", "i", "l", "l", ":", " ">>

S_upload == <<"U", "p", "l", "o", "a", "d", " ">>

S_skillsColon == <<" ", "s", "k", "i", "l", "l", "s", ":", " ">>

DecimalDigits == <<"0", "1", "2", "3", "4", "5", "6", "7", "8", "9">>

\* `${n}` for a natural number n
RECURSIVE String(_)
String(n) ==
    IF n < 10 THEN <<DecimalDigits[n + 1]>>
    ELSE String(n \div 10) \o <<DecimalDigits[(n % 10) + 1]>>

\* skills.map(s => s.name).join(', ')
RECURSIVE JoinNames(_)
JoinNames(names) ==
    IF Len(names) = 0 THEN <<>>
    ELSE IF Len(names) = 1 THEN names[1]
    ELSE names[1] \o <<",", " ">> \o JoinNames(Tail(names))

\* Lines 758-761: options.message, or the generated message naming the batch.
commitMessage(message) ==
    IF message # <<>> THEN message
    ELSE IF Len(skills) = 1 THEN S_uploadSkill \o skills[1]
    ELSE S_upload \o String(Len(skills)) \o S_skillsColon \o JoinNames(skills)

\* What a failing git commit prints, by the phrases of it (in lower case) that
\* the program looks for: "nothing to commit, working tree clean" on stdout;
\* "Author identity unknown ... git config --global user.email" on stderr; the
\* text of a hook that refused the commit on stderr.
CommitErrors ==
    {[cause |-> "nothing to commit", stderr |-> {}, stdout |-> {"nothing to commit"}],
     [cause |-> "identity", stderr |-> {"author", "user.name", "user.email"}, stdout |-> {}],
     [cause |-> "hook", stderr |-> {"hook"}, stdout |-> {"hook"}]}

\* errorText with the fallback to stdout left out.
errorTextOfStderr(out) == out.stderr

\* Lines 912-914: the text that is examined, stderr or else stdout.
errorText(out) == IF out.stderr # {} THEN out.stderr ELSE out.stdout

\* Line 916.
nothingToCommit(out) ==
    errorText(out) \cap {"nothing to commit", "nothing added to commit"} # {}

\* Lines 855-928: git commit -m "<escaped message>".  The commit goes through
\* only with something staged; with nothing staged, or when the index has been
\* committed by another process since the status check, it fails with
\* "nothing to commit".
Commit ==
    /\ pc = "commit"
    /\ \E message \in Messages :
         Record(<<Cmd("commit",
                      <<Arg("msg", commitMessage(message),
                            escapeCommitMessage(commitMessage(message)), TRUE)>>)>>,
                NoName, {})
    /\ \/ /\ Staged
          /\ commitResult' = [ok |-> TRUE, stderr |-> {}, stdout |-> {}]
          /\ GitCommit([kind |-> "batch", name |-> NoName])
          /\ pc' = "pushUrl"
          /\ Running
       \/ \E out \in CommitErrors :
            /\ out.cause # "nothing to commit" => Staged
            /\ commitResult' = [ok |-> FALSE, stderr |-> out.stderr, stdout |-> out.stdout]
            /\ head' = IF out.cause = "nothing to commit" THEN idx ELSE head
            /\ gmHead' = IF out.cause = "nothing to commit" THEN gmIdx ELSE gmHead
            /\ UNCHANGED commits
            /\ IF nothingToCommit(out)
               THEN Return("no changes")
               ELSE Exit(1, "commit failed")
    /\ UNCHANGED <<installVars, locatorVars, otherVars, stepVars, inputVars,
                   mirror, wt, idx, gmWt, gmIdx, gitCfg, gitMods, localVars,
                   pushed, attempts, declined, copied, faults>>

\* pushToRemote, lines 940-957: git remote get-url origin, then getCurrentBranch.
PushUrl ==
    /\ pc = "pushUrl"
    /\ \E ok \in BOOLEAN, okBranch \in BOOLEAN, raw \in BranchRaws :
         IF ~ ok
         THEN /\ Record(<<Cmd("remote-get-url", <<>>)>>, NoName, {})
              /\ Exit(1, "no remote")
              /\ UNCHANGED <<currentBranch, j>>
         ELSE /\ Record(<<Cmd("remote-get-url", <<>>), Cmd("rev-parse", <<>>)>>, NoName, {})
              /\ currentBranch' = getCurrentBranch(okBranch, raw)
              /\ j' = 1
              /\ pc' = "push"
              /\ Running
    /\ UNCHANGED <<installVars, locatorVars, otherVars, stepVars, inputVars,
                   mirror, treeVars, i, isSubmodule, isRegisteredSubmodule,
                   histVars, faults>>

\* What git push can print on stderr when it fails, by the phrases of it that
\* pushToRemote looks for: a remote that names the ref it refuses; a failed ssh
\* login ("Permission denied (publickey)", "Could not read from remote
\* repository"); an unreachable ssh host ("Could not read from remote
\* repository"); a failed https login ("Authentication failed", which holds no
\* lowercase "authentication"); a push that is not a fast-forward; a missing
\* upstream.
PushErrors ==
    {[cause |-> "remote ref", phrases |-> {"refs/heads/<branch>"}],
     [cause |-> "authentication", phrases |-> {"denied", "Could not read"}],
     [cause |-> "network", phrases |-> {"Could not read"}],
     [cause |-> "authentication", phrases |-> {}],
     [cause |-> "non-fast-forward", phrases |-> {"rejected", "non-fast-forward"}],
     [cause |-> "upstream", phrases |-> {"no upstream"}]}

\* Line 989: the failure lets the loop go on with the next branch.
branchMissing(stderr) ==
    "refs/heads/<branch>" \in stderr.phrases \/ "Could not read" \in stderr.phrases

\* Lines 1019-1029: the tip printed with the error details.
pushTip(stderr) ==
    IF stderr.phrases \cap {"authentication", "permission", "denied"} # {} THEN "credentials"
    ELSE IF stderr.phrases \cap {"no upstream", "no tracking"} # {} THEN "upstream"
    ELSE IF stderr.phrases \cap {"rejected", "non-fast-forward"} # {} THEN "rebase"
    ELSE "none"

\* Lines 963-1039: git push [-u] origin <branch> for the current branch, main,
\* master, until a push succeeds or fails with a text that does not let the
\* loop go on.
Push ==
    /\ pc = "push"
    /\ LET branch == Candidates[j]
           safeBranch == sanitizeBranchName(branch)
           upstream == branch = currentBranch
           try(ok, stderr, tip) ==
               Append(attempts, [branch |-> safeBranch, upstream |-> upstream, ok |-> ok,
                                 stderr |-> stderr, tip |-> tip])
       IN /\ Record(<<Cmd(IF upstream THEN "push-u" ELSE "push",
                       <<Arg("branch", branch, safeBranch, FALSE)>>)>>, NoName, {})
          /\ \/ /\ attempts' = try(TRUE, [cause |-> "none", phrases |-> {}], "none")
                /\ pushed' = safeBranch
                /\ Return("uploaded")
                /\ UNCHANGED j
             \/ \E stderr \in PushErrors :
                  IF branchMissing(stderr) /\ j < Len(Candidates)
                  THEN /\ attempts' = try(FALSE, stderr, "none")
                       /\ pc' = "push"
                       /\ j' = j + 1
                       /\ Running
                       /\ UNCHANGED pushed
                  ELSE /\ attempts' = try(FALSE, stderr, pushTip(stderr))
                       /\ Exit(1, "push failed")
                       /\ UNCHANGED <<pushed, j>>
    /\ UNCHANGED <<installVars, locatorVars, otherVars, stepVars, inputVars,
                   mirror, treeVars, i, isSubmodule, isRegisteredSubmodule,
                   currentBranch, commits, commitResult, declined, copied, faults>>

\* ------------------------------------------------------------------------
\* installSkill (install.ts)
\* ------------------------------------------------------------------------

isLocalPath(src) ==
    \/ StartsWith(src, <<"/">>)
    \/ StartsWith(src, <<".", "/">>)
    \/ StartsWith(src, <<".", ".", "/">>)
    \/ StartsWith(src, <<"~", "/">>)

isGitUrl(src) ==
    \/ StartsWith(src, S_gitat)
    \/ StartsWith(src, S_gitproto)
    \/ StartsWith(src, S_http)
    \/ StartsWith(src, S_https)
    \/ EndsWith(src, S_dotgit)

\* s.split('/')
RECURSIVE Split(_)
Split(s) ==
    IF ~ IncludesChar(s, "/") THEN <<s>>
    ELSE LET k == CHOOSE m \in 1..Len(s) : s[m] = "/" /\ \A q \in 1..(m - 1) : s[q] # "/"
         IN <<SubSeq(s, 1, k - 1)>> \o Split(SubSeq(s, k + 1, Len(s)))

\* parts.join('/')
RECURSIVE JoinSlash(_)
JoinSlash(parts) ==
    IF Len(parts) = 0 THEN <<>>
    ELSE IF Len(parts) = 1 THEN parts[1]
    ELSE parts[1] \o <<"/">> \o JoinSlash(Tail(parts))

\* Lines 51-97: the source is a local path, a git URL or a GitHub shorthand.
InstallSkill ==
    /\ pc = "installSkill"
    /\ LET parts == Split(source)
       IN IF isLocalPath(source)
          THEN /\ pc' = "installFromLocal"
               /\ Running
               /\ UNCHANGED <<repoUrl, skillSubpath, tempDir>>
          ELSE IF isGitUrl(source)
          THEN /\ repoUrl' = source
               /\ tempDir' = TRUE
               /\ pc' = "installClone"
               /\ Running
               /\ UNCHANGED skillSubpath
          ELSE IF Len(parts) = 2
          THEN /\ repoUrl' = S_github \o source
               /\ tempDir' = TRUE
               /\ pc' = "installClone"
               /\ Running
               /\ UNCHANGED skillSubpath
          ELSE IF Len(parts) > 2
          THEN /\ repoUrl' = S_github \o parts[1] \o <<"/">> \o parts[2]
               /\ skillSubpath' = JoinSlash(SubSeq(parts, 3, Len(parts)))
               /\ tempDir' = TRUE
               /\ pc' = "installClone"
               /\ Running
          ELSE /\ Exit(1, "invalid source")
               /\ UNCHANGED <<repoUrl, skillSubpath, tempDir>>
    /\ NoRecord
    /\ UNCHANGED <<repoName, skills, optYes, prior, mirror, treeVars, localVars, histVars,
                   faults, source, locatorVars, otherVars, stepVars>>

\* Lines 99-114: git clone --depth 1 --quiet "<repoUrl>" "<tempDir>/repo".
\* process.exit inside the try block ends the process before the finally block.
InstallClone ==
    /\ pc = "installClone"
    /\ Record(<<Cmd("clone", <<Arg("url", repoUrl, repoUrl, TRUE)>>)>>, NoName, {})
    /\ \E ok \in BOOLEAN :
         IF ok
         THEN /\ pc' = "installFromClone"
              /\ Running
         ELSE Exit(1, "clone failed")
    /\ UNCHANGED <<installVars, locatorVars, otherVars, stepVars, inputVars, mirror, treeVars, localVars,
                   histVars, faults>>

\* Lines 116-127: installSpecificSkill or installFromRepo on the clone; when it
\* returns, the finally block removes the temporary directory; when it ends
\* the process (no SKILL.md, nothing selected, a cancelled prompt) it does not.
InstallFromClone ==
    /\ pc = "installFromClone"
    /\ \E result \in {"installed", "exit1", "exit0"} :
         CASE result = "installed" ->
                /\ Return("installed")
                /\ tempDir' = FALSE
           [] result = "exit1" ->
                /\ Exit(1, "install failed")
                /\ UNCHANGED tempDir
           [] result = "exit0" ->
                /\ Exit(0, "install cancelled")
                /\ UNCHANGED tempDir
    /\ NoRecord
    /\ UNCHANGED <<source, skillSubpath, locatorVars, otherVars, stepVars, inputVars, mirror, treeVars, localVars,
                   histVars, faults>>

\* Lines 66-71 and 143-165: installFromLocal on the expanded path; it returns,
\* or ends the process (a missing path or SKILL.md, a cancelled prompt).
InstallFromLocal ==
    /\ pc = "installFromLocal"
    /\ \E result \in {"installed", "exit1", "exit0"} :
         CASE result = "installed" -> Return("installed")
           [] result = "exit1" -> Exit(1, "install failed")
           [] result = "exit0" -> Exit(0, "install cancelled")
    /\ NoRecord
    /\ UNCHANGED <<installVars, locatorVars, otherVars, stepVars, inputVars, mirror, treeVars, localVars,
                   histVars, faults>>

\* ------------------------------------------------------------------------
\* findAllSkills (utils/skills.ts, after the README and the specification)
\* ------------------------------------------------------------------------

\* The four search roots in priority order (README, "Priority order").
SearchRoots ==
    <<[path |-> "./.agent/skills", origin |-> "project"],
      [path |-> "~/.agent/skills", origin |-> "global"],
      [path |-> "./.claude/skills", origin |-> "project"],
      [path |-> "~/.claude/skills", origin |-> "global"]>>

\* The names of the directories a search root can hold.
DirNames == {SkillA, SkillB}

\* What a root holds under a name: nothing, a directory whose SKILL.md is
\* valid, or a directory whose SKILL.md is missing or invalid.
DirKinds == {"none", "valid", "invalid"}

\* The orders in which readdir can list the names.
ReaddirOrders == {<<SkillA, SkillB>>, <<SkillB, SkillA>>}

\* Insert with the last writer winning: a later root replaces the entry.
InsertLast(acc, name, r) ==
    SelectSeq(acc, LAMBDA b : b.name # name)
        \o <<[name |-> name, root |-> r, origin |-> SearchRoots[r].origin]>>

\* A name enters the resolved set only if it is not there yet.
Insert(acc, name, r) ==
    IF \E e \in 1..Len(acc) : acc[e].name = name THEN acc
    ELSE Append(acc, [name |-> name, root |-> r, origin |-> SearchRoots[r].origin])

\* The scan of one root: every listed directory with a valid SKILL.md.
RECURSIVE ScanRoot(_, _, _, _)
ScanRoot(fs, r, order, acc) ==
    IF order = <<>> THEN acc
    ELSE ScanRoot(fs, r, Tail(order),
                  IF fs[r][Head(order)] = "valid" THEN Insert(acc, Head(order), r) ELSE acc)

RECURSIVE ScanRoots(_, _, _, _)
ScanRoots(fs, r, order, acc) ==
    IF r > Len(SearchRoots) THEN acc
    ELSE ScanRoots(fs, r + 1, order, ScanRoot(fs, r, order, acc))

findAllSkills(fs, order) == ScanRoots(fs, 1, order, <<>>)

\* One call of findAllSkills; the filesystem stays as it is between the calls.
FindAll ==
    /\ pc = "findAllSkills"
    /\ Len(resolved) < MaxCalls
    /\ \E order \in ReaddirOrders :
         /\ resolved' = Append(resolved, findAllSkills(roots, order))
         /\ readdirOrder' = order
    /\ NoRecord
    /\ UNCHANGED <<pc, exitCode, outcome, roots, installVars, otherVars, stepVars, inputVars, mirror,
                   treeVars,
                   localVars, histVars, faults>>

\* ------------------------------------------------------------------------
\* removeGitDirectory, step by step (upload.ts 257-297)
\* ------------------------------------------------------------------------

\* getDeleteCommand (127-136), as the words of the command line.
getDeleteCommand(platform, path) ==
    IF platform = "win32"
    THEN <<"Remove-Item", "-Recurse", "-Force", <<"\"">> \o path \o <<"\"">> >>
    ELSE <<"rm", "-rf", <<"\"">> \o path \o <<"\"">> >>

\* One step of removeGitDirectory.  purge.at is the statement to run next,
\* purge.exists what existsSync would say of the path; rmSyncs, waits and
\* checks count the calls of rmSync, of setTimeout and of existsSync in the
\* loop.  rmSync returns or throws, and what it removed is gone at once or
\* at any later step (settles).
removeGitDirectoryStep ==
    /\ pc = "removeGitDirectory"
    /\ purge.at \in {"entry", "rmSync", "wait", "catch", "existsSync", "after"}
    /\ \E throws \in BOOLEAN, settles \in BOOLEAN :
         LET exists == purge.exists /\ ~ (settles /\ (purge.rmSyncs > 0 \/ purge.at = "rmSync"))
             p == [purge EXCEPT !.exists = exists]
             loop(k) == IF k < MAX_RETRY_ATTEMPTS THEN "rmSync" ELSE "after"
         IN purge' =
              CASE purge.at = "entry" ->                                   \* 261-263
                     IF ~ purge.exists
                     THEN [p EXCEPT !.at = "returned", !.result = TRUE]
                     ELSE [p EXCEPT !.at = loop(0)]
                [] purge.at = "rmSync" ->                                  \* 270
                     [p EXCEPT !.at = IF throws THEN "catch" ELSE "wait", !.rmSyncs = @ + 1]
                [] purge.at = "wait" ->                                    \* 271
                     [p EXCEPT !.at = "existsSync", !.waits = @ + 1]
                [] purge.at = "existsSync" ->                              \* 272-275
                     IF ~ exists
                     THEN [p EXCEPT !.at = "after", !.checks = @ + 1, !.removed = TRUE]
                     ELSE [p EXCEPT !.at = loop(purge.i + 1), !.checks = @ + 1, !.i = @ + 1]
                [] purge.at = "catch" ->                                   \* 276-279
                     [p EXCEPT !.at = loop(purge.i + 1), !.waits = @ + 1, !.i = @ + 1]
                [] purge.at = "after" ->                                   \* 282-296
                     IF ~ purge.removed /\ exists
                     THEN [p EXCEPT !.at = "returned", !.result = FALSE,
                                    !.printed = [path |-> purge.gitPath,
                                                 command |-> getDeleteCommand(purge.platform,
                                                                              purge.gitPath)]]
                     ELSE [p EXCEPT !.at = "returned", !.result = purge.removed]
    /\ UNCHANGED <<pc, commandVars, call, inst, config, lookup>>

\* A function that can be run by itself is not.
Off == [at |-> "idle"]

\* findSkill (utils/skills.ts, after the specification): the same scan, ended
\* at the first root that holds a valid bundle of the name; <<>> when none does.
findSkill(fs, name) ==
    IF \E r \in 1..Len(SearchRoots) : name \in DirNames /\ fs[r][name] = "valid"
    THEN LET r == CHOOSE q \in 1..Len(SearchRoots) :
                     fs[q][name] = "valid" /\ \A o \in 1..(q - 1) : fs[o][name] # "valid"
         IN <<[name |-> name, root |-> r, origin |-> SearchRoots[r].origin]>>
    ELSE <<>>

\* Lines 361-366: the listing sorted, project skills first, then by name.
sorted(listing) ==
    LET part(o) == SelectSeq(<<SkillA, SkillB>>,
                             LAMBDA n : \E e \in 1..Len(listing) :
                                           listing[e].name = n /\ listing[e].origin = o)
    IN part("project") \o part("global")

\* skillsToUpload with the names that findSkill does not find kept.
skillsToUploadUnchecked(fs, selectedNames) ==
    [e \in 1..Len(selectedNames) |-> [name |-> selectedNames[e], baseDir |-> 0]]

\* Lines 385-393: a selected name enters the batch with the directory that
\* findSkill returns for it, and is left out when findSkill returns none.
skillsToUploadOf(fs, selectedNames) ==
    LET found == SelectSeq(selectedNames, LAMBDA n : findSkill(fs, n) # <<>>)
    IN [e \in 1..Len(found) |-> [name |-> found[e], baseDir |-> findSkill(fs, found[e])[1].root]]

\* uploadSkill, lines 341-399: the skill named on the command line, or the
\* skills selected from the listing of findAllSkills.
UploadSkill ==
    /\ pc = "findAllSkills"
    /\ lookup = Off
    /\ resolved = <<>>      \* the command starts with this call
    /\ \E order \in ReaddirOrders, skillName \in {<<>>, SkillA, SkillBad},
          picked \in SUBSET DirNames, interrupt \in BOOLEAN :
         LET allSkills == findAllSkills(roots, order)
             selectedNames == SelectSeq(sorted(allSkills), LAMBDA n : n \in picked)
             end(code, what, batch) ==
                 /\ pc' = IF code = -1 THEN "selectRepository"
                          ELSE IF code = -2 THEN "returned" ELSE "exited"
                 /\ exitCode' = IF code = -1 THEN exitCode ELSE IF code = -2 THEN 0 ELSE code
                 /\ outcome' = what
                 /\ lookup' = [skillName |-> skillName, listing |-> allSkills,
                               selectedNames |-> IF skillName = <<>> THEN selectedNames ELSE <<>>,
                               skillsToUpload |-> batch]
         IN IF skillName # <<>>
            THEN IF findSkill(roots, skillName) = <<>>
                 THEN end(1, "skill not found", <<>>)
                 ELSE end(-1, "running",
                          <<[name |-> skillName,
                             baseDir |-> findSkill(roots, skillName)[1].root]>>)
            ELSE IF Len(allSkills) = 0 THEN end(1, "no skills installed", <<>>)
            ELSE IF interrupt THEN end(0, "cancelled", <<>>)
            ELSE IF Len(selectedNames) = 0 THEN end(-2, "nothing selected", <<>>)
            ELSE end(-1, "running", skillsToUploadOf(roots, selectedNames))
    /\ UNCHANGED <<lastCmd, done, installVars, locatorVars, stepVars, inputVars, mirror,
                   treeVars, localVars, histVars, faults, purge, call, inst, config>>

\* ------------------------------------------------------------------------
\* installSpecificSkill, installSingleLocalSkill, installFromRepo (install.ts)
\* ------------------------------------------------------------------------

\* path.normalize on the segments of a path: "" and "." fall away and ".."
\* takes the segment before it.
RECURSIVE Normal(_, _)
Normal(segs, acc) ==
    IF segs = <<>> THEN acc
    ELSE Normal(Tail(segs),
                IF Head(segs) \in {<<>>, <<".">>} THEN acc
                ELSE IF Head(segs) = <<".", ".">>
                THEN (IF acc = <<>> THEN acc ELSE SubSeq(acc, 1, Len(acc) - 1))
                ELSE Append(acc, Head(segs)))

\* path.resolve of an absolute POSIX path.
resolve(path) == <<"/">> \o JoinSlash(Normal(Split(path), <<>>))

\* path.basename: the last segment, trailing separators apart.
basename(path) ==
    LET segs == SelectSeq(Split(path), LAMBDA x : x # <<>>)
    IN IF segs = <<>> THEN <<>> ELSE segs[Len(segs)]

\* The test without the separator after the root.
isPathSafeNoSeparator(targetPath, targetDir) == StartsWith(resolve(targetPath), resolve(targetDir))

\* Lines 194-200, 245-251, 370-376: the target path stays within the target
\* directory (isPathSafe in the tests).
isPathSafe(targetPath, targetDir) ==
    StartsWith(resolve(targetPath), resolve(targetDir) \o <<"/">>)

\* targetDir of installSkill (52-56), and the directory above the clone.
TargetDir == <<"/", "t", "/", "s">>

\* hasValidFrontmatter (utils/yaml.ts) on the content of a SKILL.md, which is
\* written with or without the YAML header.
hasValidFrontmatter(content) == content = "---"

\* The trees an install can find at repoDir or at a local path: a, c/a valid
\* and b invalid; a invalid with a valid b below it and c/d/b invalid; an entry
\* file at the top with a and b valid; no entry file anywhere.
InstallTrees ==
    {{Dir("a", {File("SKILL.md", "---")}), Dir("b", {File("SKILL.md", "x")}),
      Dir("c", {File("f", "x"), Dir("a", {File("SKILL.md", "---")})})},
     {Dir("a", {File("SKILL.md", "x"), Dir("b", {File("SKILL.md", "---")})}),
      Dir("c", {Dir("d", {Dir("b", {File("SKILL.md", "x")})})})},
     {File("SKILL.md", "---"), Dir("a", {File("SKILL.md", "---")}),
      Dir("b", {File("SKILL.md", "---")})},
     {File("f", "x"), Dir("c", {})}}

\* The directory that the segments lead to from the directory holding kids, as
\* its entries; {} when there is none.
RECURSIVE DirAt(_, _)
DirAt(kids, segs) ==
    IF segs = <<>> THEN kids
    ELSE IF \E e \in kids : e.type = "dir" /\ <<e.name>> = Head(segs)
    THEN DirAt((CHOOSE e \in kids : e.type = "dir" /\ <<e.name>> = Head(segs)).kids, Tail(segs))
    ELSE {}

\* readFileSync of the SKILL.md of a directory that holds one.
SkillMd(kids) == (CHOOSE e \in kids : e.name = "SKILL.md").data

\* findSkills (266-282): a directory that holds a SKILL.md is taken, any
\* other directory is searched.
RECURSIVE findSkills(_, _)
findSkills(kids, prefix) ==
    UNION {IF e.type # "dir" THEN {}
           ELSE IF HasEntry(e.kids, "SKILL.md")
           THEN {[skillDir |-> Append(prefix, <<e.name>>), content |-> SkillMd(e.kids)]}
           ELSE findSkills(e.kids, Append(prefix, <<e.name>>)) : e \in kids}

\* skillInfos with the directories of an invalid SKILL.md left in.
skillInfosUnfiltered(skillDirs) == skillDirs

\* Lines 309-333: the directories whose SKILL.md has the header; the others
\* map to null and are filtered out.
skillInfosOf(skillDirs) == SelectSeq(skillDirs, LAMBDA d : hasValidFrontmatter(d.content))

\* The orders in which the entries of a set can come.
Orders(S) ==
    {q \in [1..Cardinality(S) -> S] : \A a, b \in 1..Cardinality(S) : a # b => q[a] # q[b]}

\* warnIfConflict (390-425): go on, skip the skill, or end the process.
\* warnIfConflict with the answer to the prompt left unread.
warnIfConflictUnasked(exists, skipPrompt, answer) ==
    IF exists /\ ~ skipPrompt /\ answer = "interrupt" THEN "exit" ELSE "proceed"

warnIfConflict(exists, skipPrompt, answer) ==
    IF ~ exists \/ skipPrompt THEN "proceed"
    ELSE IF answer = "yes" THEN "proceed"
    ELSE IF answer = "no" THEN "skip"
    ELSE "exit"

\* existsSync(targetPath): the target directory itself, an entry of it, or a
\* path outside of it, which is there.
TargetExists(targetPath) ==
    IF resolve(targetPath) = resolve(TargetDir) THEN inst.root
    ELSE IF isPathSafe(targetPath, TargetDir)
    THEN inst.root /\ basename(targetPath) \in inst.present
    ELSE TRUE

\* mkdirSync(targetDir, { recursive: true }) in the record of the writes.
mkdirTarget(w) == IF inst.root THEN w ELSE Append(w, [op |-> "mkdir", to |-> TargetDir])

\* Lines 172-206 and 212-257: the SKILL.md, the conflict warning, the target
\* directory, the check of the target path, the copy.
InstallOne ==
    /\ pc \in {"installSpecificSkill", "installSingleLocalSkill"}
    /\ \E answer \in {"yes", "no", "interrupt"} :
         LET skillDir == DirAt(inst.repo, Normal(Split(inst.skillSubpath), <<>>))
             skillName == basename(inst.skillSubpath)
             targetPath == join(TargetDir, skillName)
             end(code, what, w) ==
                 /\ pc' = IF code = -1 THEN "returned" ELSE "exited"
                 /\ exitCode' = IF code = -1 THEN 0 ELSE code
                 /\ outcome' = what
                 /\ inst' = [inst EXCEPT !.writes = w,
                                         !.root = @ \/ w # <<>>,
                                         !.present = IF what = "installed"
                                                     THEN @ \cup {skillName} ELSE @,
                                         !.installedCount = IF what = "installed" THEN 1 ELSE 0]
         IN IF ~ HasEntry(skillDir, "SKILL.md") THEN end(1, "SKILL.md not found", <<>>)
            ELSE IF ~ hasValidFrontmatter(SkillMd(skillDir))
            THEN end(1, "invalid SKILL.md", <<>>)
            ELSE LET go == warnIfConflict(TargetExists(targetPath), inst.yes, answer)
                 IN IF go = "skip" THEN end(-1, "skipped", <<>>)
                    ELSE IF go = "exit" THEN end(0, "install cancelled", <<>>)
                    ELSE IF ~ isPathSafe(targetPath, TargetDir)
                    THEN end(1, "outside target directory", mkdirTarget(<<>>))
                    ELSE end(-1, "installed",
                             Append(mkdirTarget(<<>>),
                                    [op |-> "cpSync", to |-> resolve(targetPath)]))
    /\ UNCHANGED <<lastCmd, done, installVars, locatorVars, stepVars, inputVars, mirror,
                   treeVars, localVars, histVars, faults, purge, call, config, lookup>>

\* Lines 284-355: the search, the skills with a valid SKILL.md, the selection.
InstallFromRepo ==
    /\ pc = "installFromRepo"
    /\ \E skillDirs \in Orders(findSkills(inst.repo, <<>>)),
          picked \in SUBSET {"a", "b"}, interrupt \in BOOLEAN :
         LET skillInfos ==
                 [e \in 1..Len(skillInfosOf(skillDirs)) |->
                    LET d == skillInfosOf(skillDirs)[e]
                    IN [skillDir |-> d.skillDir,
                        skillName |-> basename(JoinSlash(d.skillDir)),
                        targetPath |-> join(TargetDir, basename(JoinSlash(d.skillDir)))]]
             asks == ~ inst.yes /\ Len(skillInfos) > 1
             selected == {<<n>> : n \in picked}
             end(code, what) ==
                 /\ pc' = IF code = -1 THEN "returned" ELSE "exited"
                 /\ exitCode' = IF code = -1 THEN 0 ELSE code
                 /\ outcome' = what
         IN /\ inst' = [inst EXCEPT
                          !.skillDirs = skillDirs,
                          !.skillInfos = skillInfos,
                          !.skillsToInstall =
                              IF asks /\ ~ interrupt
                              THEN SelectSeq(skillInfos, LAMBDA x : x.skillName \in selected)
                              ELSE skillInfos]
            /\ IF Len(skillDirs) = 0 THEN end(1, "no SKILL.md found")
               ELSE IF Len(skillInfos) = 0 THEN end(1, "no valid SKILL.md found")
               ELSE IF asks /\ interrupt THEN end(0, "install cancelled")
               ELSE IF asks /\ selected \cap {skillInfos[e].skillName : e \in 1..Len(skillInfos)} = {}
               THEN end(-1, "nothing selected")
               ELSE pc' = "installLoop" /\ Running
    /\ UNCHANGED <<lastCmd, done, installVars, locatorVars, stepVars, inputVars, mirror,
                   treeVars, localVars, histVars, faults, purge, call, config, lookup>>

\* Lines 361-383: one round of the loop over skillsToInstall, and the count
\* reported after the last one.
InstallLoop ==
    /\ pc = "installLoop"
    /\ IF inst.k > Len(inst.skillsToInstall)
       THEN /\ inst' = [inst EXCEPT !.reported = inst.installedCount]
            /\ Return("installed")
       ELSE \E answer \in {"yes", "no", "interrupt"} :
              LET info == inst.skillsToInstall[inst.k]
                  go == warnIfConflict(TargetExists(info.targetPath), inst.yes, answer)
                  \* the prompts that were answered with no
                  asked == IF TargetExists(info.targetPath) /\ ~ inst.yes /\ answer = "no"
                           THEN {inst.k} ELSE {}
              IN IF go = "skip"
                 THEN /\ inst' = [inst EXCEPT !.k = @ + 1, !.skipped = @ \cup {inst.k},
                                              !.asked = @ \cup asked]
                      /\ pc' = pc /\ Running
                 ELSE IF go = "exit"
                 THEN /\ Exit(0, "install cancelled")
                      /\ UNCHANGED inst
                 ELSE IF ~ isPathSafe(info.targetPath, TargetDir)
                 THEN /\ inst' = [inst EXCEPT !.k = @ + 1, !.rejected = @ \cup {inst.k},
                                              !.asked = @ \cup asked,
                                              !.writes = mkdirTarget(@), !.root = TRUE]
                      /\ pc' = pc /\ Running
                 ELSE /\ inst' = [inst EXCEPT
                                    !.k = @ + 1,
                                    !.asked = @ \cup asked,
                                    !.writes = Append(mkdirTarget(@),
                                                      [op |-> "cpSync", at |-> inst.k,
                                                       to |-> resolve(info.targetPath)]),
                                    !.root = TRUE,
                                    !.present = @ \cup {info.skillName},
                                    !.installedCount = @ + 1]
                      /\ pc' = pc /\ Running
    /\ UNCHANGED <<lastCmd, done, installVars, locatorVars, stepVars, inputVars, mirror,
                   treeVars, localVars, histVars, faults, purge, call, config, lookup>>

\* ------------------------------------------------------------------------
\* Specification
\* ------------------------------------------------------------------------

\* No install is under way.
InstallIdle ==
    /\ source = <<>>
    /\ skillSubpath = <<>>
    /\ tempDir = FALSE

\* No listing is under way.
LocatorIdle ==
    /\ roots = [r \in 1..Len(SearchRoots) |-> [n \in DirNames |-> "none"]]
    /\ resolved = <<>>
    /\ readdirOrder = <<>>


\* No upload is under way.
UploadIdle ==
    /\ repoName = <<>>
    /\ skills = <<>>
    /\ optYes = FALSE
    /\ prior = [n \in TargetNames |-> "absent"]
    /\ mirror = FALSE
    /\ wt = [n \in TargetNames |-> Absent]
    /\ idx = [n \in TargetNames |-> "none"]
    /\ head = idx
    /\ gmWt = {}
    /\ gmIdx = {}
    /\ gmHead = {}
    /\ gitCfg = {}
    /\ gitMods = {}

\* What every command starts with.
Start ==
    /\ exitCode = -1
    /\ outcome = "running"
    /\ i = 1
    /\ j = 1
    /\ isSubmodule = FALSE
    /\ isRegisteredSubmodule = FALSE
    /\ currentBranch = S_main
    /\ lastCmd = <<>>
    /\ done = {}
    /\ commits = <<>>
    /\ pushed = <<>>
    /\ attempts = <<>>
    /\ commitResult = <<>>
    /\ declined = {}
    /\ copied = {}
    /\ faults = {}
    /\ srcTree = {}
    /\ tgtTree = {}
    /\ updates = <<>>

\* The state in which uploadToRepository is entered: a batch, a remote, and
\* a mirror that is absent (prior is then what the remote holds) or holds
\* some content for the names of the batch.
UploadInit ==
    /\ pc = "uploadToRepository"
    /\ repoName \in RepoNames
    /\ repoUrl \in RepoUrls
    /\ skills \in UploadBatches
    /\ optYes \in BOOLEAN
    /\ mirror \in BOOLEAN
    /\ prior \in MirrorContents
    /\ \A n \in TargetNames :
         /\ prior[n] # "absent" => \E k \in 1..Len(skills) : skills[k] = n
         /\ ~ mirror => prior[n] \in CloneKinds
         /\ prior[n] = "plainUnpushed"          \* the earlier publish was of this batch
            => \A k \in 1..Len(skills) :
                 skills[k] \in TargetNames /\ prior[skills[k]] = "plainUnpushed"
    /\ wt = [n \in TargetNames |-> IF mirror THEN KindWt(prior[n]) ELSE Absent]
    /\ idx = [n \in TargetNames |-> IF mirror THEN KindEntry(prior[n]) ELSE "none"]
    /\ head = idx
    /\ gmWt = {n \in TargetNames : mirror /\ Registered(prior[n])}
    /\ gmIdx = gmWt
    /\ gmHead = gmWt
    /\ gitCfg = {n \in TargetNames : mirror /\ prior[n] = "regSub"}
    /\ gitMods = gitCfg
    /\ InstallIdle
    /\ LocatorIdle
    /\ purge = Off /\ call = Off /\ inst = Off /\ config = Off /\ lookup = Off

\* The state in which installSkill is entered.
InstallInit ==
    /\ pc = "installSkill"
    /\ source \in Sources
    /\ skillSubpath = <<>>
    /\ tempDir = FALSE
    /\ repoUrl = <<>>
    /\ UploadIdle
    /\ LocatorIdle
    /\ purge = Off /\ call = Off /\ inst = Off /\ config = Off /\ lookup = Off

\* The state in which the skills are listed: any content of the four roots.
LocatorInit ==
    /\ pc = "findAllSkills"
    /\ roots \in [1..Len(SearchRoots) -> [DirNames -> DirKinds]]
    /\ resolved = <<>>
    /\ readdirOrder = <<>>
    /\ repoUrl = <<>>
    /\ UploadIdle
    /\ InstallIdle
    /\ purge = Off /\ call = Off /\ inst = Off /\ config = Off /\ lookup = Off

\* The state in which removeGitDirectory is entered: a path that exists or not.
PurgeInit ==
    /\ pc = "removeGitDirectory"
    /\ \E platform \in {"win32", "linux", "darwin"}, n \in TargetNames, exists \in BOOLEAN :
         purge = [at |-> "entry", platform |-> platform,
                  gitPath |-> join(skillPath(n), <<".", "g", "i", "t">>), exists |-> exists,
                  i |-> 0, removed |-> FALSE, rmSyncs |-> 0, waits |-> 0, checks |-> 0,
                  printed |-> <<>>, result |-> FALSE]
    /\ repoUrl = <<>>
    /\ UploadIdle
    /\ InstallIdle
    /\ LocatorIdle
    /\ call = Off /\ inst = Off /\ config = Off /\ lookup = Off

\* The state in which one of the three install functions is entered: what the
\* source holds, the path of the skill in it, and the target directory, which
\* is there or not and holds skills under some names.
InstallTreeInit ==
    /\ \E repo \in InstallTrees,
          subpath \in {<<"a">>, <<"b">>, <<"c", "/", "a">>, <<".">>, <<"a", "/", ".", ".">>},
          yes \in BOOLEAN, present \in {{}, {<<"a">>}, {<<"a">>, <<"b">>}}, root \in BOOLEAN :
         /\ root \/ present = {}
         /\ \/ pc = "installFromRepo" /\ subpath = <<"a">>
            \/ pc = "installSpecificSkill"
            \/ /\ pc = "installSingleLocalSkill"
               /\ subpath \in {<<"a">>, <<"c", "/", "a">>}
               /\ HasEntry(DirAt(repo, Split(subpath)), "SKILL.md")
         /\ inst = [repo |-> repo, skillSubpath |-> subpath, yes |-> yes, root |-> root,
                    present |-> present, skillDirs |-> <<>>, skillInfos |-> <<>>,
                    skillsToInstall |-> <<>>, k |-> 1, installedCount |-> 0, reported |-> -1,
                    writes |-> <<>>, skipped |-> {}, rejected |-> {}, asked |-> {}]
    /\ repoUrl = <<>>
    /\ UploadIdle
    /\ InstallIdle
    /\ LocatorIdle
    /\ purge = Off /\ call = Off /\ config = Off /\ lookup = Off

\* ------------------------------------------------------------------------
\* The pure functions, called by themselves
\* ------------------------------------------------------------------------

MaxArgLen == 3

\* The strings over the characters of S of at most n characters.
StringsUpTo(S, n) == UNION {[1..k -> S] : k \in 0..n}

\* ------------------------------------------------------------------------
\* The configured repositories (utils/config.ts)
\* ------------------------------------------------------------------------

MaxConfigCalls == 4

\* The names given to repositories, in the order of localeCompare.
ConfigNames == <<<<".", ".">>, <<"a">>, <<"b">>>>

ConfigUrls ==
    {S_https \o <<"x">>, S_gitat \o <<"x">>, <<"x">> \o S_dotgit, <<"x">>, <<"h", "t", "t", "p">>, <<>>}

\* Lines 117-125.
configIsValidGitUrl(url) ==
    \/ StartsWith(url, S_gitat)
    \/ StartsWith(url, S_gitproto)
    \/ StartsWith(url, S_http)
    \/ StartsWith(url, S_https)
    \/ EndsWith(url, S_dotgit)

\* loadRepositories that finds no repository in any file.
loadRepositoriesNone(file) == <<>>

\* Lines 27-47: no file, or a file that does not parse, is an empty list.
loadRepositories(file) == IF file.state = "ok" THEN file.repositories ELSE <<>>

\* Lines 52-61: the list is written sorted by name.
saveRepositories(repositories) ==
    [state |-> "ok",
     repositories |-> SelectSeq(repositories, LAMBDA r : r.name = ConfigNames[1])
                      \o SelectSeq(repositories, LAMBDA r : r.name = ConfigNames[2])
                      \o SelectSeq(repositories, LAMBDA r : r.name = ConfigNames[3])]

\* The end of a call on the configuration.
Called(op, name, url, result, file) ==
    /\ config' = [config EXCEPT
                    !.file = file, !.before = config.file, !.calls = @ + 1,
                    !.last = [op |-> op, name |-> name, url |-> url, result |-> result,
                              clone |-> {}, pull |-> {}, push |-> {}]]
    /\ UNCHANGED <<pc, commandVars, purge, call, inst, lookup>>

\* Lines 66-87.
addRepository ==
    /\ pc = "config"
    /\ config.calls < MaxConfigCalls
    /\ \E k \in 1..Len(ConfigNames), url \in ConfigUrls :
         LET name == ConfigNames[k]
             repositories == loadRepositories(config.file)
         IN IF \E r \in 1..Len(repositories) : repositories[r].name = name
            THEN Called("add", name, url, "already exists", config.file)
            ELSE IF ~ configIsValidGitUrl(url)
            THEN Called("add", name, url, "invalid url", config.file)
            ELSE Called("add", name, url, "added",
                        saveRepositories(Append(repositories,
                                                [name |-> name, url |-> url,
                                                 addedAt |-> config.calls + 1])))

\* Lines 92-104.
removeRepository ==
    /\ pc = "config"
    /\ config.calls < MaxConfigCalls
    /\ \E k \in 1..Len(ConfigNames) :
         LET name == ConfigNames[k]
             repositories == loadRepositories(config.file)
             filtered == SelectSeq(repositories, LAMBDA r : r.name # name)
         IN IF Len(filtered) = Len(repositories)
            THEN Called("remove", name, <<>>, "false", config.file)
            ELSE Called("remove", name, <<>>, "true", saveRepositories(filtered))

\* A publish to a configured repository, as far as the URLs go: uploadSkill
\* takes the URL stored under the name (409-459); uploadToRepository checks
\* the name and the URL (470-480), clones from the URL when
\* ~/.openskills/repos/<name> is not there and otherwise fetches and pulls
\* from the origin of the directory that is there (482-536); pushToRemote
\* pushes to that origin (941-980). clone, pull and push are the URLs that
\* the commands of the publish went to.
publish ==
    /\ pc = "config"
    /\ config.calls < MaxConfigCalls
    /\ \E k \in 1..Len(ConfigNames), cloned \in BOOLEAN, pushes \in BOOLEAN :
         LET name == ConfigNames[k]
             repositories == loadRepositories(config.file)
             found == SelectSeq(repositories, LAMBDA r : r.name = name)
             origins == {m.origin : m \in {x \in config.mirrors : x.name = name}}
             end(result, clone, pull, push, mirrors) ==
                 /\ config' = [config EXCEPT
                                 !.before = config.file, !.calls = @ + 1,
                                 !.mirrors = mirrors,
                                 !.last = [op |-> "publish", name |-> name,
                                           url |-> IF found = <<>> THEN <<>> ELSE found[1].url,
                                           result |-> result,
                                           clone |-> clone, pull |-> pull, push |-> push]]
                 /\ UNCHANGED <<pc, commandVars, purge, call, inst, lookup>>
         IN IF repositories = <<>>
            THEN end("no repositories configured", {}, {}, {}, config.mirrors)
            ELSE IF found = <<>> THEN end("not found", {}, {}, {}, config.mirrors)
            ELSE IF ~ isValidRepoName(name) THEN end("invalid name", {}, {}, {}, config.mirrors)
            ELSE IF ~ isValidGitUrl(found[1].url)
            THEN end("invalid url", {}, {}, {}, config.mirrors)
            ELSE IF origins = {}
            THEN IF ~ cloned
                 THEN end("clone failed", {found[1].url}, {}, {}, config.mirrors)
                 ELSE end(IF pushes THEN "pushed" ELSE "ended before the push",
                          {found[1].url}, {},
                          IF pushes THEN {found[1].url} ELSE {},
                          config.mirrors \cup {[name |-> name, origin |-> found[1].url]})
            ELSE end(IF pushes THEN "pushed" ELSE "ended before the push",
                     {}, origins, IF pushes THEN origins ELSE {}, config.mirrors)

\* The configuration file before the first call: none, one that does not
\* parse, or a list of repositories of different names, in any order.
ConfigInit ==
    /\ pc = "config"
    /\ \E state \in {"ok", "missing", "corrupt"}, names \in StringsUpTo({1, 2, 3}, 2) :
         /\ state = "ok" \/ names = <<>>
         /\ \A x, y \in 1..Len(names) : x # y => names[x] # names[y]
         /\ config = [file |-> [state |-> state,
                                repositories |-> [x \in 1..Len(names) |->
                                                    [name |-> ConfigNames[names[x]],
                                                     url |-> S_https \o <<"x">>,
                                                     addedAt |-> 0]]],
                      before |-> [state |-> state, repositories |-> <<>>],
                      calls |-> 0,
                      mirrors |-> {},
                      last |-> [op |-> "none", name |-> <<>>, url |-> <<>>, result |-> "none",
                                clone |-> {}, pull |-> {}, push |-> {}]]
    /\ repoUrl = <<>>
    /\ UploadIdle
    /\ InstallIdle
    /\ LocatorIdle
    /\ purge = Off /\ call = Off /\ inst = Off /\ lookup = Off

\* The destinations handed to the containment check, against the target
\* directory written with and without a closing separator.
PathArgs ==
    {<<targetPath, targetDir>> :
       targetPath \in {<<"/", "t", "/", "s">>,
                       <<"/", "t", "/", "s", "/">>,
                       <<"/", "t", "/", "s", "-", "e">>,
                       <<"/", "t", "/", "s", "/", ".", ".", "/", "x">>,
                       <<"/", "t", "/", "s", "/", "a">>,
                       <<"/", "t", "/", "s", "/", "a", "/", "b">>,
                       <<"/", "t", "/", "s", "/", "a", "/", ".", ".">>,
                       <<"/", "t", "/", "s", "/", ".", ".", "/", "s", "/", "a">>,
                       <<"/", "e">>,
                       <<"/", "t">>,
                       <<"/", "t", "/", "s", "/", ".", "/", "a">>,
                       <<"/", "t", "/", "s", "/", "a", "/", ".", ".", "/", ".", ".", "/", ".", ".", "/", "e">>},
       targetDir \in {TargetDir, TargetDir \o <<"/">>}}

\* The names handed to the validators: every string of at most two of the
\* characters below, and strings at and around the length limit.
NameArgs ==
    {<<n>> : n \in StringsUpTo({"a", "Z", "9", ".", "_", "-", "/", "\\", " "}, 2)
                   \cup {[k \in 1..len |-> "a"] : len \in {MaxNameLen - 1, MaxNameLen, MaxNameLen + 1}}
                   \cup {<<"a", ".", ".", "b">>, <<"a", ".", "b", ".">>}}

\* The strings handed to the escaping functions.
EscapeArgs ==
    {<<str>> : str \in StringsUpTo({"\"", "\\", "\n", "\r", "NUL", "BQ", "$", "\t", "a"}, MaxArgLen)}

CallInit ==
    /\ pc = "call"
    /\ \E fn \in {"isPathSafe", "isValidSkillName", "isValidRepoName",
                  "escapeGitPath", "escapeCommitMessage"} :
         \E args \in CASE fn = "isPathSafe" -> PathArgs
                       [] fn \in {"isValidSkillName", "isValidRepoName"} -> NameArgs
                       [] OTHER -> EscapeArgs :
           call = [at |-> "called", fn |-> fn, args |-> args, result |-> <<>>]
    /\ repoUrl = <<>>
    /\ UploadIdle
    /\ InstallIdle
    /\ LocatorIdle
    /\ purge = Off /\ inst = Off /\ config = Off /\ lookup = Off

\* The called function returns.
Apply ==
    /\ pc = "call"
    /\ call.at = "called"
    /\ call' = [call EXCEPT
                  !.at = "returned",
                  !.result = CASE call.fn = "isPathSafe" -> isPathSafe(call.args[1], call.args[2])
                               [] call.fn = "isValidSkillName" -> isValidSkillName(call.args[1])
                               [] call.fn = "isValidRepoName" -> isValidRepoName(call.args[1])
                               [] call.fn = "escapeGitPath" -> escapeGitPath(call.args[1])
                               [] call.fn = "escapeCommitMessage" -> escapeCommitMessage(call.args[1])]
    /\ UNCHANGED <<pc, commandVars, purge, inst, config, lookup>>

Init ==
    /\ Start
    /\ \/ UploadInit
       \/ InstallInit
       \/ LocatorInit
       \/ PurgeInit
       \/ InstallTreeInit
       \/ CallInit
       \/ ConfigInit

Next ==
    \/ UploadValidate
    \/ Clone
    \/ Fetch
    \/ PullBranch
    \/ Pull
    \/ LoopHead
    \/ Confirm
    \/ Detect
    \/ RmIndex
    \/ RmFs
    \/ Cleanup
    \/ Status1
    \/ Commit1
    \/ Copy
    \/ Verify
    \/ EnsureAll
    \/ Add
    \/ AddAll
    \/ Status2
    \/ Commit
    \/ PushUrl
    \/ Push
    \/ InstallSkill
    \/ InstallClone
    \/ InstallFromClone
    \/ InstallFromLocal
    \/ FindAll
    \/ UploadSkill
    \/ Apply
    \/ addRepository
    \/ removeRepository
    \/ publish
    \/ removeGitDirectoryStep
    \/ InstallOne
    \/ InstallFromRepo
    \/ InstallLoop

Spec == Init /\ [][Next]_vars


\* ------------------------------------------------------------------------
\* Properties
\* ------------------------------------------------------------------------

\* An upload is the command at hand.
Uploading == skills # <<>>

\* The command has ended.
Ended == pc \in {"exited", "returned"}

\* The operations that run the external version-control process.
VcOps ==
    {"clone", "fetch", "rev-parse", "pull", "ls-files", "rm-cached-force", "rm-cached-r",
     "add-gitmodules", "rm-gitmodules", "status", "commit-removal", "add-f", "add-A",
     "ls-files-skills", "commit", "remote-get-url", "push", "push-u"}

\* The operations that stage, commit and push the batch.
BatchOps == {"add-f", "add-A", "commit", "remote-get-url", "push", "push-u"}

DidAny(ops) == \E e \in done : e[1] \in ops

BatchCommitted == \E e \in 1..Len(commits) : commits[e].kind = "batch"

Range(f) == {f[e] : e \in 1..Len(f)}

\* The highest-priority root that holds a valid bundle of the name n, or 0.
HighestRoot(n) ==
    IF \E r \in 1..Len(SearchRoots) : roots[r][n] = "valid"
    THEN CHOOSE r \in 1..Len(SearchRoots) :
            roots[r][n] = "valid" /\ \A q \in 1..(r - 1) : roots[q][n] # "valid"
    ELSE 0

\* C1: findAll scans the four search roots in priority order: in the result of
\* every call, a name with a valid bundle under one or more roots appears
\* exactly once, with the bundle of the highest-priority such root, a name with
\* none does not appear, and every call on the unchanged filesystem returns
\* the same set.
C1_FirstRootWins ==
    \A c \in 1..Len(resolved) :
        /\ \A n \in DirNames :
             LET hits == {e \in 1..Len(resolved[c]) : resolved[c][e].name = n}
             IN IF HighestRoot(n) = 0 THEN hits = {}
                ELSE /\ Cardinality(hits) = 1
                     /\ \A e \in hits : resolved[c][e].root = HighestRoot(n)
        /\ Range(resolved[c]) = Range(resolved[1])

\* Two calls that listed the directories in different orders, with a name that
\* the first root holds invalid and the second and a later root hold valid.
C1_Witness ==
    /\ Len(resolved) = 2
    /\ resolved[1] # resolved[2]
    /\ roots[1][SkillA] = "invalid"
    /\ roots[2][SkillA] = "valid"
    /\ roots[4][SkillA] = "valid"
    /\ roots[2][SkillB] = "valid"
    /\ \E e \in 1..Len(resolved[2]) : resolved[2][e] = [name |-> SkillA, root |-> 2, origin |-> "global"]

\* The remediation of skills[i] has run and its copy has not begun.
Remediated ==
    /\ Uploading
    /\ pc = "copy"
    /\ <<"rmSync", skills[i]>> \in done

C3_PostCopyAbort ==
    /\ [][pc = "verify" /\ (wt'[skills[i]].git \/ ~ wt'[skills[i]].md)
            => /\ pc' = "exited"
               /\ exitCode' = 1
               /\ idx' = idx
               /\ head' = head
               /\ commits' = commits
               /\ pushed' = pushed]_vars
    /\ [][~ Ended]_vars
    /\ [](outcome \in {"git remains after copy", "SKILL.md not copied"}
            => /\ exitCode = 1
               /\ ~ DidAny(BatchOps)
               /\ ~ BatchCommitted
               /\ pushed = <<>>)

\* The second skill of a batch ends the publish at the post-copy check with
\* its .git still in place, after the first skill was copied.
C3_Witness ==
    /\ pc = "exited"
    /\ outcome = "git remains after copy"
    /\ i = 2
    /\ skills[1] \in copied
    /\ wt[skills[2]].git
    /\ <<"copy", skills[2]>> \in done

InvalidRemote == ~ isValidRepoName(repoName) \/ ~ isValidGitUrl(repoUrl)

InvalidSkill == \E k \in 1..Len(skills) : ~ isValidSkillName(skills[k])

Validated(arg) ==
    CASE arg.kind = "url" -> isValidGitUrl(arg.raw)
      [] arg.kind = "repo" -> isValidRepoName(arg.raw)
      [] arg.kind = "skill" -> isValidSkillName(arg.raw)
      [] arg.kind = "branch" ->
           /\ isValidBranchName(arg.text)
           /\ arg.text = IF isValidBranchName(arg.raw) THEN arg.raw ELSE S_main
      [] OTHER -> TRUE

\* C5: in publish and in install, every URL, remote name, skill name and
\* branch name in an external command line has passed its validator, an
\* invalid branch being replaced by 'main'.
C5_OnlyValidatedValues ==
    \A c \in 1..Len(lastCmd) :
        \A a \in 1..Len(lastCmd[c].args) : Validated(lastCmd[c].args[a])

\* The text of a double-quoted value is the escaped form of what it carries.
Escaped(arg) ==
    CASE arg.kind = "url" -> arg.text = escapeGitPath(arg.raw)
      [] arg.kind = "repo" -> arg.text = escapeGitPath(join(ReposDir, arg.raw))
      [] arg.kind = "skill" ->
           \/ arg.text = escapeGitPath(skillPath(arg.raw))
           \/ arg.text = escapeGitPath(skillPath(arg.raw)) \o <<"/">>
      [] arg.kind = "msg" -> arg.text = escapeCommitMessage(arg.raw)
      [] OTHER -> TRUE

\* C6: every value from the user or the configuration placed between double
\* quotes in a command line is the escaped form of that value, and holds no
\* double quote that closes the argument.
C6_EveryValueEscaped ==
    \A c \in 1..Len(lastCmd) :
        \A a \in 1..Len(lastCmd[c].args) :
            lastCmd[c].args[a].quoted
            => (Escaped(lastCmd[c].args[a]) /\ ~ ClosesQuote(lastCmd[c].args[a].text))

\* The operations of the per-skill loop on the target of a skill.
LoopOps ==
    {"ls-files", "rm-cached-force", "rm-cached-r", "rmSync", "cleanup", "add-gitmodules",
     "rm-gitmodules", "status", "commit-removal", "copy", "rm-git"}

\* C7: a declined overwrite (the target exists and confirmations are on) makes
\* the loop go to the next skill without touching the mirror; the loop never
\* removes from the index, deletes or copies for a declined skill, and when it
\* is through every skill of the batch is either declined or copied.
C7_DeclineSkipsOneSkill ==
    /\ [][pc = "confirm" /\ declined' # declined
            => /\ wt[skills[i]].exists
               /\ ~ optYes
               /\ declined' = declined \cup {skills[i]}
               /\ pc' = "loop"
               /\ i' = i + 1
               /\ exitCode' = exitCode
               /\ lastCmd' = <<>>
               /\ done' = done
               /\ treeVars' = treeVars]_vars
    /\ [](\A n \in declined : \A op \in LoopOps : <<op, n>> \notin done)
    /\ [](Uploading /\ pc = "ensureAll"
            => /\ \A k \in 1..Len(skills) : skills[k] \in declined \cup copied
               /\ declined \cap copied = {})

\* The first skill of a batch was declined and the second, a registered
\* submodule, was remediated and copied.
C7_Witness ==
    /\ pc = "ensureAll"
    /\ Len(skills) = 2
    /\ declined = {skills[1]}
    /\ copied = {skills[2]}
    /\ prior[skills[2]] = "regSub"
    /\ wt[skills[1]] = KindWt(prior[skills[1]])
    /\ wt[skills[1]].git

\* C8: the passes after the loop leave a declined skill alone: its target is
\* as it was (a nested .git is still there) and it is not force-added; and the
\* forced add has covered every copied skill when the blanket add begins.
C8_DeclinedLeftAlone ==
    /\ \A n \in declined :
         /\ <<"ensure-rm-git", n>> \notin done
         /\ <<"add-rm-git", n>> \notin done
         /\ <<"add-f", n>> \notin done
         /\ wt[n] = KindWt(prior[n])
    /\ (Uploading /\ pc = "addAll") => \A n \in copied : <<"add-f", n>> \in done

\* C9: an interrupted prompt ends the process in that step with the mirror,
\* the commits and the record of operations as they were; nothing has been
\* done for the skill at hand or a later one, nothing is staged, committed as
\* the batch or pushed, and the process does nothing after it has ended.
C9_InterruptStopsAtOnce ==
    /\ [][pc = "confirm" /\ outcome' = "cancelled"
            => /\ pc' = "exited"
               /\ treeVars' = treeVars
               /\ commits' = commits
               /\ pushed' = pushed
               /\ done' = done
               /\ lastCmd' = <<>>]_vars
    /\ [][~ Ended]_vars
    /\ [](outcome = "cancelled"
            => /\ pc = "exited"
               /\ \A k \in i..Len(skills) : \A e \in done : e[2] # skills[k]
               /\ ~ DidAny(BatchOps)
               /\ ~ BatchCommitted
               /\ pushed = <<>>
               /\ \A e \in 1..Len(commits) :
                    /\ commits[e].kind = "removal"
                    /\ \E k \in 1..(i - 1) : commits[e].name = skills[k]
                    /\ head[commits[e].name] = idx[commits[e].name])

\* The prompt for the second skill is interrupted after the checkpoint commit
\* and the copy of the first.
C9_Witness ==
    /\ outcome = "cancelled"
    /\ i = 2
    /\ commits = <<[kind |-> "removal", name |-> skills[1]]>>
    /\ skills[1] \in copied
    /\ head[skills[1]] = "none"

\* The target at hand was a nested repository or a registered submodule.
WasSubmodule == isSubmodule \/ isRegisteredSubmodule

\* With nothing failing and the batch committed, every copied skill that was
\* a registered submodule has one removal commit, made before the batch
\* commit, and is tracked as plain files with no registration left; a batch
\* of that one skill has exactly two commits.
TwoCommits ==
    (Uploading /\ faults = {} /\ BatchCommitted)
    => /\ commits[Len(commits)].kind = "batch"
       /\ \A n \in copied :
            Registered(prior[n])
            => /\ Cardinality({e \in 1..(Len(commits) - 1) :
                     commits[e] = [kind |-> "removal", name |-> n]}) = 1
               /\ idx[n] = "new"
               /\ head[n] = "new"
               /\ n \notin gmIdx
               /\ n \notin gmHead
               /\ ~ wt[n].git
       /\ (Len(skills) = 1 /\ skills[1] \in copied /\ Registered(prior[skills[1]]))
          => commits = <<[kind |-> "removal", name |-> skills[1]],
                         [kind |-> "batch", name |-> NoName]>>

Excluded == {".git", ".gitignore", ".gitattributes"}

\* The files and directories of a tree by their paths, a symbolic link
\* standing for what it points to (a link that points to nothing has none).
RECURSIVE Entries(_, _)
Entries(tree, prefix) ==
    UNION {LET path == Append(prefix, e.name)
               type == IF e.type = "link" THEN e.ltype ELSE e.type
           IN CASE type = "file" -> {[path |-> path, type |-> "file", data |-> e.data]}
                [] type = "dir" ->
                     {[path |-> path, type |-> "dir", data |-> ""]} \cup Entries(e.kids, path)
                [] OTHER -> {}
           : e \in tree}

\* The source tree as the target is to hold it.
ExpectedCopy(src) ==
    {x \in Entries(src, <<>>) : \A k \in 1..Len(x.path) : x.path[k] \notin Excluded}

\* The skill before the one at hand has just been copied and has passed the
\* post-copy checks.
JustCopied ==
    /\ Uploading
    /\ pc = "loop"
    /\ srcTree # {}
    /\ skills[i - 1] \in copied

\* C11: when a skill has been copied and has passed the post-copy checks, the
\* tree at skills/<name> holds exactly the files and directories of the source
\* tree, links followed, that have no component named .git, .gitignore or
\* .gitattributes in their path; it holds no link, nothing of what the target
\* held before, and no such entry at any level.
C11_CopyIsFilteredSource ==
    JustCopied
    => /\ Entries(tgtTree, <<>>) = ExpectedCopy(srcTree)
       /\ \A x \in Entries(tgtTree, <<>>) :
            /\ x.data # "old"
            /\ \A k \in 1..Len(x.path) : x.path[k] \notin Excluded
       /\ \A e \in tgtTree : e.type # "link" /\ \A f \in e.kids : f.type # "link"

\* A source with links to a file and to a directory holding .git is copied
\* over a target whose .git was still visible after the deletion of the
\* target; the post-copy check has removed it.
C11_Witness ==
    /\ JustCopied
    /\ Link("l", "file", "y", {}) \in srcTree
    /\ <<"rmSync", skills[i - 1]>> \in faults
    /\ <<"rm-git", skills[i - 1]>> \in done
    /\ File("l", "y") \in tgtTree
    /\ Dir("d", {File("f", "x")}) \in tgtTree

\* The operations that commit the batch and push it.
CommitPushOps == {"commit", "remote-get-url", "push", "push-u"}

\* The mirror holds every skill of the batch as a successful publish leaves it:
\* plain tracked files equal to the source, no registration of any kind.
AsPublished ==
    \A k \in 1..Len(skills) :
        /\ wt[skills[k]] = KindWt("plainSame")
        /\ idx[skills[k]] = KindEntry("plainSame")
        /\ head[skills[k]] = KindEntry("plainSame")
        /\ skills[k] \notin gmWt \cup gmIdx \cup gmHead \cup gitCfg \cup gitMods

\* The publish at hand is the second of two: it started on the mirror that a
\* successful publish of the same batch left.
SecondCall ==
    /\ Uploading
    /\ mirror
    /\ \A k \in 1..Len(skills) : skills[k] \in TargetNames /\ prior[skills[k]] = "plainSame"

NoRemoteBranch(a) == ~ a.ok /\ a.stderr.cause = "remote ref"

\* C13: the k-th push goes to the k-th of the current branch, main and master,
\* the first with set-upstream; a further push follows only a failure that
\* tells that the remote branch does not exist, so none follows a success or
\* a failure of authentication, of the network or of a non-fast-forward; and
\* such a failure of the first or second push is followed by the next push.
C13_PushSequence ==
    \A k \in 1..Len(attempts) :
        /\ attempts[k].branch = sanitizeBranchName(Candidates[k])
        /\ k = 1 => attempts[k].upstream
        /\ k < Len(attempts) => NoRemoteBranch(attempts[k])
        /\ (NoRemoteBranch(attempts[k]) /\ k < Len(Candidates))
           => (k < Len(attempts) \/ pc = "push")

\* C14: when the three pushes have all failed with 'Could not read', the
\* publish has ended with status 1 on a push failure, and the missing-upstream
\* tip has been printed.
C14_CouldNotReadTip ==
    (/\ Len(attempts) = Len(Candidates)
     /\ \A k \in 1..Len(attempts) :
          ~ attempts[k].ok /\ "Could not read" \in attempts[k].stderr.phrases)
    => /\ pc = "exited"
       /\ exitCode = 1
       /\ outcome = "push failed"
       /\ attempts[Len(attempts)].tip = "upstream"

\* The steps that bring an existing mirror up to date.
UpdatePhase == {"fetch", "pullBranch", "pull"}

\* C15: on an existing mirror, whatever the fetch and the pulls do, every step
\* of the update goes on to the next step or to the per-skill loop with the
\* process still running; the pulls are at most one per candidate, so the loop
\* is reached after at most five steps, and no outcome of the update is an exit.
C15_UpdateNeverAborts ==
    /\ [][(pc \in UpdatePhase)
            => /\ pc' \in {"pullBranch", "pull", "loop"}
               /\ exitCode' = -1
               /\ (pc' = pc => j' = j + 1)]_vars
    /\ [](pc \in UpdatePhase => mirror /\ exitCode = -1 /\ j <= Len(Candidates))
    /\ [](updates # <<>> => pc \in {"pullBranch", "pull", "loop"} /\ exitCode = -1)

\* The loop is reached after a fetch that went through and three failed pulls.
C15_Witness ==
    /\ pc = "loop"
    /\ Len(updates) = 4
    /\ updates[1].ok
    /\ \A k \in 2..4 : ~ updates[k].ok

\* C16 as stated: the update of an existing mirror is a fetch followed by pulls
\* of the current branch, main and master in that order, with no pull after one
\* that succeeded; when the loop is reached the pulls have been tried until one
\* succeeded or all three failed; fetch and pull run at no other time.
C16_FetchThenPulls ==
    /\ updates # <<>>
       => /\ updates[1].op = "fetch"
          /\ \A k \in 2..Len(updates) :
               /\ updates[k].op = "pull"
               /\ k < Len(updates) => ~ updates[k].ok
               /\ k > 2 => updates[k].branch = DEFAULT_BRANCHES[k - 2]
          /\ (pc = "pull" /\ Len(updates) > 1) => updates[2].branch = currentBranch
          /\ pc = "pull" => j = Len(updates)
          /\ pc = "loop"
             => /\ Len(updates) > 1
                /\ updates[Len(updates)].ok \/ Len(updates) = 1 + Len(Candidates)
    /\ \A c \in 1..Len(lastCmd) : lastCmd[c].op \in {"fetch", "pull"} => updates # <<>>

\* C16, amended: the same, the pulls being attempted only when the fetch went
\* through; after a failed fetch the loop is reached with no pull attempted.
C16_PullsAfterFetchSucceeded ==
    /\ updates # <<>>
       => /\ updates[1].op = "fetch"
          /\ \A k \in 2..Len(updates) :
               /\ updates[k].op = "pull"
               /\ updates[1].ok
               /\ k < Len(updates) => ~ updates[k].ok
               /\ k > 2 => updates[k].branch = DEFAULT_BRANCHES[k - 2]
          /\ (pc = "pull" /\ Len(updates) > 1) => updates[2].branch = currentBranch
          /\ pc = "pull" => j = Len(updates)
          /\ (pc = "loop" /\ updates[1].ok)
             => /\ Len(updates) > 1
                /\ updates[Len(updates)].ok \/ Len(updates) = 1 + Len(Candidates)
          /\ (pc = "loop" /\ ~ updates[1].ok) => Len(updates) = 1
    /\ \A c \in 1..Len(lastCmd) : lastCmd[c].op \in {"fetch", "pull"} => updates # <<>>

\* The pull of a current branch other than main failed, the pull of main
\* succeeded, and master was not tried.
C16_Witness ==
    /\ pc = "loop"
    /\ Len(updates) = 3
    /\ updates[2] = [op |-> "pull", branch |-> <<"d">>, ok |-> FALSE]
    /\ updates[3] = [op |-> "pull", branch |-> S_main, ok |-> TRUE]

\* C17: without a mirror the clone is the first command; as long as there is
\* no mirror nothing but the clone has run, nothing is copied, committed or
\* pushed, and a failed clone has ended the process with status 1.
C17_CloneFirstAndFatal ==
    /\ pc = "clone" => (done = {} /\ ~ mirror)
    /\ <<"clone", NoName>> \in done => ~ DidAny({"fetch", "pull"})
    /\ (Uploading /\ ~ mirror)
       => /\ pc \in {"uploadToRepository", "clone", "exited"}
          /\ done \subseteq {<<"clone", NoName>>}
          /\ copied = {}
          /\ commits = <<>>
          /\ pushed = <<>>
          /\ attempts = <<>>
          /\ \A n \in TargetNames : wt[n] = Absent
    /\ outcome = "clone failed"
       => /\ pc = "exited"
          /\ exitCode = 1
          /\ ~ mirror
          /\ done = {<<"clone", NoName>>}

\* The clone for a batch of two has failed.
C17_Witness ==
    /\ outcome = "clone failed"
    /\ Len(skills) = 2
    /\ lastCmd[1].op = "clone"

\* The batch commit has failed.
CommitFailed == commitResult # <<>> /\ ~ commitResult.ok

\* The text of the failed commit says that there is nothing to commit.
SaysNothingToCommit ==
    \E phrase \in {"nothing to commit", "nothing added to commit"} :
        phrase \in commitResult.stderr \cup commitResult.stdout

C19_NoChangesEndsPublish ==
    /\ [][pc = "status2" /\ ~ Dirty
            => /\ pc' \in {"returned", "exited"}
               /\ pc' = "returned" => outcome' = "no changes"
               /\ pc' = "exited" => outcome' = "status failed"
               /\ commits' = commits
               /\ head' = head]_vars
    /\ [][~ Ended]_vars
    /\ []((outcome = "no changes" /\ commitResult = <<>>)
            => /\ pc = "returned"
               /\ exitCode = 0
               /\ ~ Dirty
               /\ ~ BatchCommitted
               /\ ~ DidAny(CommitPushOps)
               /\ attempts = <<>>
               /\ pushed = <<>>)

\* The publish of a skill that the mirror already holds unchanged, next to a
\* declined one, has ended with no changes at the status check.
C19_Witness ==
    /\ outcome = "no changes"
    /\ commitResult = <<>>
    /\ lastCmd[1].op = "status"
    /\ Len(skills) = 2
    /\ declined = {skills[1]}
    /\ copied = {skills[2]}

\* C20: a failure of a remediation step never ends the publish, and the steps
\* after the failed one still run: an exit with a failed copy comes only from
\* the copy itself, never from the deletion of the old target; and once
\* cleanupSubmodule has run, the section of .git/config and the directory under
\* .git/modules of the skill are gone unless their own removal failed, whatever
\* became of the .gitmodules step.
C20_RemediationBestEffort ==
    /\ outcome = "copy failed" => <<"copy", skills[i]>> \in done
    /\ (Uploading /\ pc = "status1")
       => /\ <<"cfg", skills[i]>> \notin faults => skills[i] \notin gitCfg
          /\ <<"mods", skills[i]>> \notin faults => skills[i] \notin gitMods

\* removeGitDirectory, run by itself, has left its loop.
PurgeLoopLeft == pc = "removeGitDirectory" /\ purge.at \in {"after", "returned"}

\* C21: the purge of a .git path makes at most MAX_RETRY_ATTEMPTS removal
\* attempts, each followed by a wait and by a re-check of the path, and goes
\* on to no further attempt once a re-check has found the path gone; when
\* the path is still there at the end, the result is the fatal one and the
\* path and the deletion command of the platform have been printed.
C21_PurgePollsUntilAbsent ==
    pc = "removeGitDirectory"
    => /\ purge.rmSyncs <= MAX_RETRY_ATTEMPTS
       /\ PurgeLoopLeft => purge.waits = purge.rmSyncs /\ purge.checks = purge.rmSyncs
       /\ purge.removed => PurgeLoopLeft
       /\ (purge.at = "returned" /\ purge.exists)
          => /\ ~ purge.result
             /\ purge.printed = [path |-> purge.gitPath,
                                 command |-> IF purge.platform = "win32"
                                             THEN <<"Remove-Item", "-Recurse", "-Force",
                                                    <<"\"">> \o purge.gitPath \o <<"\"">> >>
                                             ELSE <<"rm", "-rf",
                                                    <<"\"">> \o purge.gitPath \o <<"\"">> >>]

\* The exits that a failed external command or file operation brings about.
FailureOutcomes ==
    {"clone failed", "copy failed", "add failed", "status failed", "commit failed",
     "no remote", "push failed"}

\* A single skill with an entry file is published under valid names to a
\* remote that holds nothing of it, and no mirror of the remote existed.
FirstPublish ==
    /\ Uploading
    /\ Len(skills) = 1
    /\ isValidRepoName(repoName) /\ isValidGitUrl(repoUrl) /\ isValidSkillName(skills[1])
    /\ \A n \in TargetNames : prior[n] = "absent"
    /\ mirror => <<"clone", NoName>> \in done
    /\ outcome # "SKILL.md not copied"

\* No external command and no file operation has failed so far.
AllSucceeded ==
    /\ faults = {}
    /\ outcome \notin FailureOutcomes
    /\ \A k \in 1..Len(attempts) : attempts[k].ok
    /\ commitResult # <<>> => commitResult.ok

\* C22: in the first publish of a single skill with every command succeeding,
\* the mirror is cloned and neither fetched nor pulled, no confirmation is
\* asked and no step of the remediation runs, the target holds the filtered
\* content of the source, and the run ends only by reporting the upload, after
\* exactly one commit, that of the batch, and exactly one push, with -u to the
\* current branch, which succeeded.
C22_FirstPublishScenario ==
    (FirstPublish /\ AllSucceeded)
    => /\ pc \notin {"fetch", "pullBranch", "pull", "confirm", "detect", "rmIndex", "rmFs",
                     "cleanup", "status1", "commit1"}
       /\ updates = <<>>
       /\ ~ DidAny({"fetch", "pull"} \cup (LoopOps \ {"copy", "status"}))
       /\ declined = {}
       /\ Len(commits) <= 1 /\ Len(attempts) <= 1
       /\ JustCopied => Entries(tgtTree, <<>>) = ExpectedCopy(srcTree)
       /\ Ended
          => /\ pc = "returned" /\ outcome = "uploaded"
             /\ <<"clone", NoName>> \in done
             /\ copied = {skills[1]}
             /\ wt[skills[1]] = KindWt("plainSame")
             /\ head[skills[1]] = "new"
             /\ Len(commits) = 1 /\ commits[1].kind = "batch"
             /\ Len(attempts) = 1
             /\ attempts[1] = [branch |-> sanitizeBranchName(currentBranch), upstream |-> TRUE,
                               ok |-> TRUE, stderr |-> [cause |-> "none", phrases |-> {}],
                               tip |-> "none"]
             /\ pushed = sanitizeBranchName(currentBranch)

\* The first publish of one skill has ended with the upload reported.
C22_Witness ==
    /\ FirstPublish
    /\ AllSucceeded
    /\ pc = "returned"
    /\ outcome = "uploaded"
    /\ currentBranch # S_main
    /\ <<"clone", NoName>> \in done

\* One of the install functions is the command at hand.
Installing == inst # Off

\* The directory at the segments d of the source holds an entry file with
\* the metadata header.
ValidBundle(d) ==
    /\ HasEntry(DirAt(inst.repo, d), "SKILL.md")
    /\ SkillMd(DirAt(inst.repo, d)) = "---"

ListedAs(listing, n) == {listing[e] : e \in {x \in 1..Len(listing) : listing[x].name = n}}

C25_RejectedBeforeAnyWrite ==
    Installing =>
      /\ outcome = "outside target directory" => inst.writes = <<>>
      /\ inst.rejected # {} => inst.writes = <<>>

\* The function fn has returned from a call.
Returned(fn) == pc = "call" /\ call.at = "returned" /\ call.fn = fn

\* The segments of path p after resolution.
Segments(p) == Normal(Split(p), <<>>)

\* C26: the containment check accepts a destination iff its resolved path is
\* a proper descendant of the resolved root, segment by segment: the root
\* itself, a sibling that shares the root as a string prefix and a path that
\* leaves the root through '..' are rejected, a child and a nested directory
\* are accepted.
C26_ContainmentIffProperDescendant ==
    Returned("isPathSafe") =>
      LET P == Segments(call.args[1])
          D == Segments(call.args[2])
      IN /\ call.result <=> (Len(P) > Len(D) /\ SubSeq(P, 1, Len(D)) = D)
         /\ call.args[1] \in {TargetDir, join(<<"/", "t">>, <<"s", "-", "e">>),
                              join(TargetDir, <<".", ".", "/", "x">>)} => ~ call.result
         /\ call.args[1] \in {join(TargetDir, <<"a">>), join(TargetDir, <<"a", "/", "b">>)}
            => call.result

\* The sibling that shares the root as a string prefix was rejected.
C26_Witness ==
    /\ Returned("isPathSafe")
    /\ call.args = <<join(<<"/", "t">>, <<"s", "-", "e">>), TargetDir>>
    /\ call.result = FALSE

\* 1 to 255 characters, each of [A-Za-z0-9._-].
WellFormedName(s) ==
    /\ Len(s) \in 1..255
    /\ \A k \in 1..Len(s) : s[k] \in NameChars

\* C27 as stated: each of the two validators accepts a string iff it is 1 to
\* 255 characters long and every character is in [A-Za-z0-9._-].
C27_BothValidatorsAcceptWellFormed ==
    (Returned("isValidSkillName") \/ Returned("isValidRepoName"))
      => (call.result <=> WellFormedName(call.args[1]))

\* C27, amended: the validator of bundle names accepts a string iff it is 1
\* to 255 characters long and every character is in [A-Za-z0-9._-]; the
\* validator of remote names accepts a string iff it is that and holds no
\* two dots in a row.
C27_ValidatorsAccept ==
    /\ Returned("isValidSkillName") => (call.result <=> WellFormedName(call.args[1]))
    /\ Returned("isValidRepoName")
       => (call.result <=> (WellFormedName(call.args[1]) /\ ~ Includes(call.args[1], <<".", ".">>)))

\* The remote-name validator has refused a well-formed name that holds two
\* dots in a row.
C27_Witness ==
    /\ Returned("isValidRepoName")
    /\ call.args[1] = <<"a", ".", ".", "b">>
    /\ call.result = FALSE

\* What the shell reads from the inside of a double-quoted argument, with no
\* expansion: a backslash before a backslash, a double quote, a dollar or a
\* backtick is dropped and the character after it stands for itself.
RECURSIVE Unquote(_)
Unquote(s) ==
    IF s = <<>> THEN <<>>
    ELSE IF Head(s) = "\\" /\ Len(s) >= 2 /\ s[2] \in {"\\", "\"", "$", "BQ"}
    THEN <<s[2]>> \o Unquote(Tail(Tail(s)))
    ELSE <<Head(s)>> \o Unquote(Tail(s))

\* The input without the characters an escaping function takes out: no
\* carriage return and no NUL, and a space in the place of each member of
\* blanks and nothing in the place of each member of dropped.
Plain(s, blanks, dropped) ==
    [k \in 1..Len(SelectSeq(s, LAMBDA c : c \notin {"\r", "NUL"} \cup dropped)) |->
       LET c == SelectSeq(s, LAMBDA x : x \notin {"\r", "NUL"} \cup dropped)[k]
       IN IF c \in blanks THEN " " ELSE c]

\* C28: the output of either escaping function holds no newline, carriage
\* return or NUL; every double quote and backslash of the input is in it
\* behind a backslash, so that the shell reads the input back from it (less
\* the characters taken out); and nothing in it ends the double-quoted
\* argument it is embedded in before the closing quote.
C28_EscapedOutputStaysQuoted ==
    (Returned("escapeGitPath") \/ Returned("escapeCommitMessage")) =>
      /\ \A k \in 1..Len(call.result) : call.result[k] \notin {"\n", "\r", "NUL"}
      /\ ~ ClosesQuote(call.result)
      /\ ClosesQuote(call.result \o <<"\"">>)
      /\ Unquote(call.result) =
           IF call.fn = "escapeGitPath" THEN Plain(call.args[1], {"\t"}, {"\n"})
           ELSE Plain(call.args[1], {"\n"}, {})

\* A backslash, a double quote and a newline were escaped for a path.
C28_Witness ==
    /\ Returned("escapeGitPath")
    /\ call.args[1] = <<"\\", "\"", "\n">>
    /\ call.result = <<"\\", "\\", "\\", "\"">>

\* The selected bundles that installFromRepo has copied so far.
Copied == {inst.writes[w].at : w \in {x \in 1..Len(inst.writes) : inst.writes[x].op = "cpSync"}}

\* C29: in the loop of installFromRepo over the selected bundles, a bundle
\* that the loop has passed was copied iff its overwrite was not declined and
\* its destination passes the containment check; the loop goes on after a
\* declined or rejected bundle, and the count it reports at the end is the
\* number of bundles copied.
C29_CopiedIffNotDeclinedAndContained ==
    (Installing /\ inst.skillsToInstall # <<>>) =>
      /\ \A b \in 1..(inst.k - 1) :
           b \in Copied <=> /\ b \notin inst.asked
                            /\ isPathSafe(inst.skillsToInstall[b].targetPath, TargetDir)
      /\ Copied \subseteq 1..(inst.k - 1)
      /\ inst.installedCount = Cardinality(Copied)
      /\ Cardinality(Copied) =
           Cardinality({x \in 1..Len(inst.writes) : inst.writes[x].op = "cpSync"})
      /\ (inst.asked # {} /\ pc \notin {"installLoop", "exited"})
         => inst.k = Len(inst.skillsToInstall) + 1
      /\ inst.reported # -1
         => /\ inst.reported = Cardinality(Copied)
            /\ inst.k = Len(inst.skillsToInstall) + 1

\* The install of two bundles has ended with the first declined and the
\* second copied, and has reported one.
C29_Witness ==
    /\ Installing
    /\ Len(inst.skillsToInstall) = 2
    /\ inst.asked = {1}
    /\ Copied = {2}
    /\ inst.reported = 1
    /\ outcome = "installed"

\* The names stored in a configuration file.
StoredNames(file) ==
    IF file.state = "ok"
    THEN {file.repositories[r].name : r \in 1..Len(file.repositories)}
    ELSE {}

\* C30: after any calls of addRepository and removeRepository on a
\* configuration of different names, the stored names are different; an add
\* of a stored name or of a URL that fails the URL check ends in an error and
\* a remove of a name not stored returns false, each with the stored list as
\* it was, and every other add or remove changes it.
C30_NamesStayDistinct ==
    pc = "config" =>
      /\ config.file.state = "ok"
         => \A x, y \in 1..Len(config.file.repositories) :
              x # y => config.file.repositories[x].name # config.file.repositories[y].name
      /\ config.last.op = "add"
         => IF config.last.name \in StoredNames(config.before)
               \/ ~ configIsValidGitUrl(config.last.url)
            THEN /\ config.last.result \in {"already exists", "invalid url"}
                 /\ config.file = config.before
            ELSE /\ config.last.result = "added"
                 /\ StoredNames(config.file) = StoredNames(config.before) \cup {config.last.name}
      /\ config.last.op = "remove"
         => IF config.last.name \notin StoredNames(config.before)
            THEN /\ config.last.result = "false"
                 /\ config.file = config.before
            ELSE /\ config.last.result = "true"
                 /\ StoredNames(config.file) = StoredNames(config.before) \ {config.last.name}

\* A second add of a stored name has failed and left the two stored
\* repositories as they were.
C30_Witness ==
    /\ pc = "config"
    /\ config.calls = 3
    /\ config.mirrors = {}
    /\ config.last.op = "add"
    /\ config.last.result = "already exists"
    /\ config.file = config.before
    /\ Len(config.file.repositories) = 2
    /\ config.file.repositories[1].addedAt = 2

\* C31: removeGitDirectory returns true iff the .git path is absent when it
\* returns, whatever the filesystem did: it returns false only when the path
\* is still there.
C31_TrueIffAbsent ==
    (pc = "removeGitDirectory" /\ purge.at = "returned")
      => (purge.result <=> ~ purge.exists)

\* The bundles below a directory as the locator of the specification finds
\* them: a directory with a valid entry file is a leaf, every other directory
\* is descended into.
RECURSIVE LocatedBelow(_, _)
LocatedBelow(kids, prefix) ==
    UNION {IF e.type # "dir" THEN {}
           ELSE IF HasEntry(e.kids, "SKILL.md") /\ SkillMd(e.kids) = "---"
           THEN {Append(prefix, <<e.name>>)}
           ELSE LocatedBelow(e.kids, Append(prefix, <<e.name>>)) : e \in kids}

\* C32: the bundles that the discovery of installFromRepo offers are the ones
\* the locator finds in the same tree: nothing below a valid bundle, and the
\* valid bundles below a directory whose entry file is invalid.
C32_DiscoveryAsLocator ==
    (Installing /\ inst.skillDirs # <<>>)
      => {inst.skillInfos[e].skillDir : e \in 1..Len(inst.skillInfos)}
           = LocatedBelow(inst.repo, <<>>)

\* C33: every URL that a publish to the name N has cloned from, pulled from
\* or pushed to is the URL stored under N when the publish ran, whatever
\* adds, removes and publishes went before.
C33_PublishUsesCurrentUrl ==
    (pc = "config" /\ config.last.op = "publish")
      => config.last.clone \cup config.last.pull \cup config.last.push
           \subseteq {config.last.url}

\* C37: a remote that addRepository has accepted and stored can be published
\* to: its name passes the name validator and its URL the URL validator of
\* the publish.
C37_StoredRemoteIsPublishable ==
    (pc = "config" /\ config.last.op = "add" /\ config.last.result = "added")
      => /\ isValidRepoName(config.last.name)
         /\ isValidGitUrl(config.last.url)

\* C34: when a publish has ended with the no-changes outcome, the mirror
\* holds no commit that is not on the remote: none that this publish created,
\* and none that an earlier publish of the batch created before it failed at
\* the push.
C34_NoChangesLeavesNothingUnpushed ==
    (Uploading /\ pc = "returned" /\ outcome = "no changes" /\ pushed = <<>>)
      => /\ commits = <<>>
         /\ \A n \in TargetNames : prior[n] # "plainUnpushed"

\* C35: when a publish has reported the upload, the commit it created is on
\* the remote.  The commit is on the branch that HEAD is on, and a push puts
\* on the remote the branch it names; getCurrentBranch has reported the branch
\* of HEAD whenever it reports a name other than the default ones (the
\* fallback 'main' stands for a failed rev-parse or an unsafe name), so the
\* push that succeeded must then be the one of the current branch.
C35_UploadedCommitIsOnRemote ==
    (Uploading /\ outcome = "uploaded" /\ BatchCommitted
       /\ currentBranch \notin Range(DEFAULT_BRANCHES))
      => pushed = currentBranch

\* C36: after the batch commit of a publish, HEAD differs from the HEAD the
\* publish started with only at skills/<name> and in the .gitmodules section
\* of names of the batch that were not skipped.
C36_CommitOnlyBundlesOfBatch ==
    (Uploading /\ BatchCommitted)
      => \A n \in TargetNames :
           (head[n] # KindEntry(prior[n]) \/ (n \in gmHead) # Registered(prior[n]))
             => (n \in Range(skills) /\ n \notin declined)

\* The generated message for the bundles names.
MessageNaming(names) ==
    IF Len(names) = 1 THEN S_uploadSkill \o names[1]
    ELSE S_upload \o String(Len(names)) \o S_skillsColon \o JoinNames(names)

\* C38: the commit message that a publish generates names exactly the
\* bundles that the publish copied, in the order of the batch; a bundle whose
\* overwrite was declined is not in it.
C38_MessageNamesCopiedBundles ==
    (Uploading /\ lastCmd # <<>> /\ lastCmd[1].op = "commit"
       /\ lastCmd[1].args[1].raw \notin Messages)
      => lastCmd[1].args[1].raw = MessageNaming(SelectSeq(skills, LAMBDA n : n \in copied))

\* C39: when an install from a remote source has ended, by a return or by the
\* end of the process (a failed clone, a missing or invalid SKILL.md, no skill
\* found, a rejected target path, a cancelled prompt), the temporary clone
\* directory no longer exists.
C39_TempDirRemovedAtEnd ==
    (source # <<>> /\ pc \in {"returned", "exited"}) => ~ tempDir

=============================================================================
